---- MODULE Spec2Model ----
(***************************************************************************)
(* FlowNote agent backend (backend/agents/flow_agent.py): the flow-block   *)
(* codec (_parse_flow / _build_flow_block), the FlowEditorPlugin toolkit   *)
(* and the reconciliation step of run_flow_agent.                          *)
(*                                                                         *)
(* A Python str is modelled as a sequence of one-character strings, so the *)
(* regular expressions of the source are matched character by character.   *)
(***************************************************************************)
EXTENDS Integers, Sequences, FiniteSets

(***************************************************************************)
(* Text helpers (str.strip, str.splitlines, decimal formatting)            *)
(***************************************************************************)

\* p occurs in t at position i
HasAt(t, i, p) ==
    /\ i >= 1
    /\ i + Len(p) - 1 <= Len(t)
    /\ \A k \in 1..Len(p) : t[i + k - 1] = p[k]

\* the characters matched by \s and removed by str.strip()
IsSpace(c) == c \in {" ", "\t", "\n", "\r"}

RECURSIVE LStrip(_)
LStrip(t) == IF t # <<>> /\ IsSpace(Head(t)) THEN LStrip(Tail(t)) ELSE t

RECURSIVE RStrip(_)
RStrip(t) ==
    IF t # <<>> /\ IsSpace(t[Len(t)]) THEN RStrip(SubSeq(t, 1, Len(t) - 1)) ELSE t

Strip(t) == RStrip(LStrip(t))

\* first position >= i of t that holds no whitespace (Len(t)+1 when none)
RECURSIVE SkipSpace(_, _)
SkipSpace(t, i) ==
    IF i <= Len(t) /\ IsSpace(t[i]) THEN SkipSpace(t, i + 1) ELSE i

\* smallest element of a non-empty set of integers
Min(S) == CHOOSE x \in S : \A y \in S : x <= y

\* largest element of a non-empty set of integers
Max(S) == CHOOSE x \in S : \A y \in S : y <= x

\* str.splitlines(): the lines of t from position s on, a line ending at
\* "\n", "\r" or "\r\n"
RECURSIVE SplitLinesFrom(_, _)
SplitLinesFrom(t, s) ==
    LET breaks == {j \in s..Len(t) : t[j] \in {"\n", "\r"}}
        b == Min(breaks)
    IN  IF breaks = {}
        THEN IF s <= Len(t) THEN <<SubSeq(t, s, Len(t))>> ELSE <<>>
        ELSE <<SubSeq(t, s, b - 1)>>
             \o SplitLinesFrom(t, IF HasAt(t, b, <<"\r", "\n">>) THEN b + 2 ELSE b + 1)

SplitLines(t) == SplitLinesFrom(t, 1)

Digits == <<"0", "1", "2", "3", "4", "5", "6", "7", "8", "9">>

\* str(n) for n >= 0
RECURSIVE IntToText(_)
IntToText(n) ==
    IF n < 10 THEN <<Digits[n + 1]>>
    ELSE IntToText(n \div 10) \o <<Digits[(n % 10) + 1]>>

\* "\n".join(lines)
RECURSIVE JoinLines(_)
JoinLines(lines) ==
    IF lines = <<>> THEN <<>>
    ELSE IF Len(lines) = 1 THEN lines[1]
    ELSE lines[1] \o <<"\n">> \o JoinLines(Tail(lines))

(***************************************************************************)
(* Flow serialisation helpers                                              *)
(***************************************************************************)

\* the backquote character (the lexer has no string literal for it)
Tick == "<backquote>"

Fence == <<Tick, Tick, Tick>>
FlowOpen == Fence \o <<"f", "l", "o", "w">>

\* a node is [id, label, type], an edge [id, source, target, label]; an
\* edge without a "label" key carries the empty label (e.get("label") is
\* falsy for both), an edge without an "id" key the empty id
NoLabel == <<>>

_serialize_node(n) ==
    CASE n.type = "input"    -> <<"[", "[">> \o n.id \o <<"]", "]", " ">> \o n.label
      [] n.type = "output"   -> <<"(", "(">> \o n.id \o <<")", ")", " ">> \o n.label
      [] n.type = "selector" -> <<"{">> \o n.id \o <<"}", " ">> \o n.label
      [] OTHER               -> <<"[">> \o n.id \o <<"]", " ">> \o n.label

_serialize_edge(e) ==
    LET base == <<"[">> \o e.source \o <<"]", " ", "-", ">", " ", "[">>
                \o e.target \o <<"]">>
    IN  IF e.label # <<>> THEN base \o <<" ", ":", " ">> \o e.label ELSE base

_build_flow_block(ns, es) ==
    LET node_lines == [i \in 1..Len(ns) |-> _serialize_node(ns[i])]
        edge_lines == [i \in 1..Len(es) |-> _serialize_edge(es[i])]
    IN  FlowOpen \o <<"\n">> \o JoinLines(node_lines)
        \o (IF edge_lines # <<>> THEN <<"\n", "\n">> ELSE <<>>)
        \o JoinLines(edge_lines) \o <<"\n">> \o Fence

(***************************************************************************)
(* Parse existing flow block from Markdown                                  *)
(***************************************************************************)

\* _FLOW_RE = <fence>flow\r?\n([\s\S]*?)<fence> tried at position i: the start of
\* the body and the position of the closing fence, or no match
FlowMatchAt(md, i) ==
    LET bodyStart == IF HasAt(md, i + 7, <<"\r", "\n">>) THEN i + 9
                     ELSE IF HasAt(md, i + 7, <<"\n">>) THEN i + 8
                     ELSE 0
        closes == {j \in bodyStart..Len(md) : HasAt(md, j, Fence)}
    IN  IF HasAt(md, i, FlowOpen) /\ bodyStart > 0 /\ closes # {}
        THEN [ok |-> TRUE, start |-> i, body |-> bodyStart, close |-> Min(closes)]
        ELSE [ok |-> FALSE, start |-> 0, body |-> 0, close |-> 0]

\* _FLOW_RE.finditer(md) from position i: leftmost, non-overlapping matches
RECURSIVE FlowMatchesFrom(_, _)
FlowMatchesFrom(md, i) ==
    LET starts == {j \in i..Len(md) : FlowMatchAt(md, j).ok}
        m == FlowMatchAt(md, Min(starts))
    IN  IF starts = {} THEN <<>>
        ELSE <<m>> \o FlowMatchesFrom(md, m.close + 3)

FlowMatches(md) == FlowMatchesFrom(md, 1)

NoMatch == [ok |-> FALSE, a |-> <<>>, b |-> <<>>, c |-> <<>>]

\* the tail \s+(.+)$ of a node pattern tried at position p: the label
LabelTail(line, p) ==
    IF p <= Len(line) /\ IsSpace(line[p])
    THEN LET v == SkipSpace(line, p)
         IN  IF v <= Len(line) THEN [ok |-> TRUE, lbl |-> SubSeq(line, v, Len(line))]
             ELSE IF Len(line) >= p + 1 THEN [ok |-> TRUE, lbl |-> <<line[Len(line)]>>]
             ELSE [ok |-> FALSE, lbl |-> <<>>]
    ELSE [ok |-> FALSE, lbl |-> <<>>]

\* one of _NODE_PATTERNS, ^open(.+?)close\s+(.+)$, matched against line
NodeMatch(line, open, close) ==
    LET ks == {k \in (Len(open) + 2)..Len(line) :
                  HasAt(line, k, close) /\ LabelTail(line, k + Len(close)).ok}
    IN  IF HasAt(line, 1, open) /\ ks # {}
        THEN LET k == Min(ks)
             IN  [ok |-> TRUE, a |-> SubSeq(line, Len(open) + 1, k - 1),
                  b |-> LabelTail(line, k + Len(close)).lbl, c |-> <<>>]
        ELSE NoMatch

\* _NODE_PATTERNS with the generic [id] label pattern tried first
_NODE_PATTERNS_default_first ==
    << [open |-> <<"[">>,      close |-> <<"]">>,      ntype |-> "default"],
       [open |-> <<"[", "[">>, close |-> <<"]", "]">>, ntype |-> "input"],
       [open |-> <<"(", "(">>, close |-> <<")", ")">>, ntype |-> "output"],
       [open |-> <<"{">>,      close |-> <<"}">>,      ntype |-> "selector"] >>

_NODE_PATTERNS ==
    << [open |-> <<"[", "[">>, close |-> <<"]", "]">>, ntype |-> "input"],
       [open |-> <<"(", "(">>, close |-> <<")", ")">>, ntype |-> "output"],
       [open |-> <<"{">>,      close |-> <<"}">>,      ntype |-> "selector"],
       [open |-> <<"[">>,      close |-> <<"]">>,      ntype |-> "default"] >>

\* the optional tail (?:\s*:\s*(.+))?$ of _EDGE_RE tried at position p
EdgeTail(line, p) ==
    IF p > Len(line) THEN [ok |-> TRUE, lbl |-> <<>>]
    ELSE LET u == SkipSpace(line, p)
         IN  IF u <= Len(line) /\ line[u] = ":" /\ u < Len(line)
             THEN LET v == SkipSpace(line, u + 1)
                  IN  IF v <= Len(line)
                      THEN [ok |-> TRUE, lbl |-> SubSeq(line, v, Len(line))]
                      ELSE [ok |-> TRUE, lbl |-> <<line[Len(line)]>>]
             ELSE [ok |-> FALSE, lbl |-> <<>>]

\* the part \s*->\s*\[(.+?)\](...)?$ of _EDGE_RE tried at position p: the
\* positions of the brackets of the target
EdgeTarget(line, p) ==
    LET q == SkipSpace(line, p)
        r == SkipSpace(line, q + 2)
        ms == {m \in (r + 2)..Len(line) :
                  line[m] = "]" /\ EdgeTail(line, m + 1).ok}
    IN  IF HasAt(line, q, <<"-", ">">>) /\ HasAt(line, r, <<"[">>) /\ ms # {}
        THEN [ok |-> TRUE, open |-> r, close |-> Min(ms)]
        ELSE [ok |-> FALSE, open |-> 0, close |-> 0]

\* _EDGE_RE = ^\[(.+?)\]\s*->\s*\[(.+?)\](?:\s*:\s*(.+))?$ matched against line
EdgeMatch(line) ==
    LET ks == {k \in 3..Len(line) : line[k] = "]" /\ EdgeTarget(line, k + 1).ok}
    IN  IF HasAt(line, 1, <<"[">>) /\ ks # {}
        THEN LET k == Min(ks)
                 t == EdgeTarget(line, k + 1)
             IN  [ok |-> TRUE, a |-> SubSeq(line, 2, k - 1),
                  b |-> SubSeq(line, t.open + 1, t.close - 1),
                  c |-> EdgeTail(line, t.close + 1).lbl]
        ELSE NoMatch

\* SeeNode where a later declaration of an id overwrites the node
SeeNode_last_wins(acc, nid, lbl, ntype) ==
    IF nid \in acc.seen_nodes
    THEN [acc EXCEPT !.nodes = [i \in 1..Len(@) |->
                                   IF @[i].id = nid
                                   THEN [id |-> nid, label |-> lbl, type |-> ntype]
                                   ELSE @[i]]]
    ELSE [acc EXCEPT !.nodes = Append(@, [id |-> nid, label |-> lbl, type |-> ntype]),
                     !.seen_nodes = @ \cup {nid}]

\* nid not in seen_nodes -> nodes.append(...), seen_nodes.add(nid)
SeeNode(acc, nid, lbl, ntype) ==
    IF nid \in acc.seen_nodes THEN acc
    ELSE [acc EXCEPT !.nodes = Append(@, [id |-> nid, label |-> lbl, type |-> ntype]),
                     !.seen_nodes = @ \cup {nid}]

\* the first of _NODE_PATTERNS from index i on that matches line
RECURSIVE ParseNodeLine(_, _, _)
ParseNodeLine(acc, line, i) ==
    IF i > Len(_NODE_PATTERNS) THEN acc
    ELSE LET pat == _NODE_PATTERNS[i]
             nm == NodeMatch(line, pat.open, pat.close)
         IN  IF nm.ok THEN SeeNode(acc, nm.a, nm.b, pat.ntype)
             ELSE ParseNodeLine(acc, line, i + 1)

\* edge = {"id": f"e{edge_n}-{src}-{tgt}", ...}, edges.append(edge), edge_n += 1
AppendEdge(acc, src, tgt, lbl) ==
    [acc EXCEPT !.edges = Append(@, [id |-> <<"e">> \o IntToText(acc.edge_n) \o <<"-">>
                                            \o src \o <<"-">> \o tgt,
                                     source |-> src, target |-> tgt,
                                     label |-> IF lbl # <<>> THEN Strip(lbl)
                                               ELSE NoLabel]),
                !.edge_n = @ + 1]

\* ParseMatched that materialises the target of an edge before its source
ParseMatched_target_first(acc, line, em) ==
    IF line = <<>> THEN acc
    ELSE IF em.ok
    THEN AppendEdge(SeeNode(SeeNode(acc, em.b, em.b, "default"),
                            em.a, em.a, "default"),
                    em.a, em.b, em.c)
    ELSE ParseNodeLine(acc, line, 1)

\* the body of the loop for a stripped line and its match em against _EDGE_RE
ParseMatched(acc, line, em) ==
    IF line = <<>> THEN acc
    ELSE IF em.ok
    THEN AppendEdge(SeeNode(SeeNode(acc, em.a, em.a, "default"),
                            em.b, em.b, "default"),
                    em.a, em.b, em.c)
    ELSE ParseNodeLine(acc, line, 1)

\* the body of the loop over the lines of one block
ParseLine(acc, rawline) ==
    ParseMatched(acc, Strip(rawline), EdgeMatch(Strip(rawline)))

RECURSIVE ParseLines(_, _)
ParseLines(acc, lines) ==
    IF lines = <<>> THEN acc
    ELSE ParseLines(ParseLine(acc, Head(lines)), Tail(lines))

RECURSIVE ParseBlocks(_, _, _)
ParseBlocks(acc, md, ms) ==
    IF ms = <<>> THEN acc
    ELSE ParseBlocks(
            ParseLines(acc, SplitLines(SubSeq(md, Head(ms).body, Head(ms).close - 1))),
            md, Tail(ms))

\* return nodes, edges
ParsedGraph(acc) == [nodes |-> acc.nodes, edges |-> acc.edges]

_parse_flow(md) ==
    ParsedGraph(ParseBlocks([nodes |-> <<>>, edges |-> <<>>, seen_nodes |-> {},
                             edge_n |-> 0], md, FlowMatches(md)))

(***************************************************************************)
(* Tools (stateful plugin - holds flow state during a single run)          *)
(*                                                                         *)
(* A plugin p is [nodes, edges, _edge_counter].  A tool method returns the *)
(* plugin after the call together with what the call handed back: raised   *)
(* tells whether it raised, result is the status string, kept as the       *)
(* f-string of the source with the values it interpolates.  TLA+ has no    *)
(* assignment, so `self.nodes = ...` is the nodes field of the value       *)
(* returned.                                                               *)
(***************************************************************************)

Ret(ns, es, ec, raised, result) ==
    [nodes |-> ns, edges |-> es, _edge_counter |-> ec,
     raised |-> raised, result |-> result]

\* index of the first node whose id is node_id, 0 standing for None
_node_index(ns, node_id) ==
    LET hits == {i \in 1..Len(ns) : ns[i].id = node_id}
    IN  IF hits = {} THEN 0 ELSE Min(hits)

_edge_key(source, target) == <<"e", "-">> \o source \o <<"-">> \o target

\* add_node that appends the node although the id is taken
add_node_append_anyway(p, node_id, label, node_type) ==
    Ret(Append(p.nodes, [id |-> node_id, label |-> label, type |-> node_type]),
        p.edges, p._edge_counter, FALSE,
        IF _node_index(p.nodes, node_id) # 0
        THEN [msg |-> "Node '{node_id}' already exists.", node_id |-> node_id]
        ELSE [msg |-> "Added {node_type} node '{node_id}' ({label}).",
              node_type |-> node_type, node_id |-> node_id, label |-> label])

add_node(p, node_id, label, node_type) ==
    IF _node_index(p.nodes, node_id) # 0
    THEN Ret(p.nodes, p.edges, p._edge_counter, FALSE,
             [msg |-> "Node '{node_id}' already exists.", node_id |-> node_id])
    ELSE Ret(Append(p.nodes, [id |-> node_id, label |-> label, type |-> node_type]),
             p.edges, p._edge_counter, FALSE,
             [msg |-> "Added {node_type} node '{node_id}' ({label}).",
              node_type |-> node_type, node_id |-> node_id, label |-> label])

\* remove_node that drops only the edges leaving the node
remove_node_outgoing_only(p, node_id) ==
    LET idx == _node_index(p.nodes, node_id)
        kept == SelectSeq(p.edges, LAMBDA e : e.source # node_id)
    IN  IF idx = 0
        THEN Ret(p.nodes, p.edges, p._edge_counter, FALSE,
                 [msg |-> "Node '{node_id}' not found.", node_id |-> node_id])
        ELSE Ret(SubSeq(p.nodes, 1, idx - 1) \o SubSeq(p.nodes, idx + 1, Len(p.nodes)),
                 kept, p._edge_counter, FALSE,
                 [msg |-> "Removed node '{node_id}' and {removed_edges} connected edge(s).",
                  node_id |-> node_id, removed_edges |-> Len(p.edges) - Len(kept)])

remove_node(p, node_id) ==
    LET idx == _node_index(p.nodes, node_id)
        kept == SelectSeq(p.edges,
                    LAMBDA e : e.source # node_id /\ e.target # node_id)
    IN  IF idx = 0
        THEN Ret(p.nodes, p.edges, p._edge_counter, FALSE,
                 [msg |-> "Node '{node_id}' not found.", node_id |-> node_id])
        ELSE Ret(SubSeq(p.nodes, 1, idx - 1) \o SubSeq(p.nodes, idx + 1, Len(p.nodes)),
                 kept, p._edge_counter, FALSE,
                 [msg |-> "Removed node '{node_id}' and {removed_edges} connected edge(s).",
                  node_id |-> node_id, removed_edges |-> Len(p.edges) - Len(kept)])

\* add_edge that appends the default nodes without looking for the ids
add_edge_always_creates(p, source, target, label) ==
    LET n2 == p.nodes \o <<[id |-> source, label |-> source, type |-> "default"],
                           [id |-> target, label |-> target, type |-> "default"]>>
        edge == [id |-> _edge_key(source, target), source |-> source,
                 target |-> target, label |-> IF label # <<>> THEN label ELSE NoLabel]
    IN  Ret(n2, Append(p.edges, edge), p._edge_counter + 1, FALSE,
            [msg |-> "Added edge {source} → {target}{ : label}.",
             source |-> source, target |-> target, label |-> label])

\* add_edge that creates no node
add_edge_no_autocreate(p, source, target, label) ==
    LET edge == [id |-> _edge_key(source, target), source |-> source,
                 target |-> target, label |-> IF label # <<>> THEN label ELSE NoLabel]
    IN  Ret(p.nodes, Append(p.edges, edge), p._edge_counter + 1, FALSE,
            [msg |-> "Added edge {source} → {target}{ : label}.",
             source |-> source, target |-> target, label |-> label])

\* add_edge that skips a pair the edge list already holds
add_edge_dedup(p, source, target, label) ==
    LET n1 == IF _node_index(p.nodes, source) = 0
              THEN Append(p.nodes, [id |-> source, label |-> source, type |-> "default"])
              ELSE p.nodes
        n2 == IF _node_index(n1, target) = 0
              THEN Append(n1, [id |-> target, label |-> target, type |-> "default"])
              ELSE n1
        edge == [id |-> _edge_key(source, target), source |-> source,
                 target |-> target, label |-> IF label # <<>> THEN label ELSE NoLabel]
        held == \E i \in 1..Len(p.edges) :
                    p.edges[i].source = source /\ p.edges[i].target = target
    IN  Ret(n2, IF held THEN p.edges ELSE Append(p.edges, edge),
            p._edge_counter + 1, FALSE,
            [msg |-> "Added edge {source} → {target}{ : label}.",
             source |-> source, target |-> target, label |-> label])

add_edge(p, source, target, label) ==
    LET n1 == IF _node_index(p.nodes, source) = 0
              THEN Append(p.nodes, [id |-> source, label |-> source, type |-> "default"])
              ELSE p.nodes
        n2 == IF _node_index(n1, target) = 0
              THEN Append(n1, [id |-> target, label |-> target, type |-> "default"])
              ELSE n1
        edge == [id |-> _edge_key(source, target), source |-> source,
                 target |-> target, label |-> IF label # <<>> THEN label ELSE NoLabel]
    IN  Ret(n2, Append(p.edges, edge), p._edge_counter + 1, FALSE,
            [msg |-> "Added edge {source} → {target}{ : label}.",
             source |-> source, target |-> target, label |-> label])

\* remove_edge that removes the first matching edge only
remove_edge_first_only(p, source, target) ==
    LET hits == {i \in 1..Len(p.edges) :
                    p.edges[i].source = source /\ p.edges[i].target = target}
        kept == IF hits = {} THEN p.edges
                ELSE SubSeq(p.edges, 1, Min(hits) - 1)
                     \o SubSeq(p.edges, Min(hits) + 1, Len(p.edges))
    IN  IF Len(kept) = Len(p.edges)
        THEN Ret(p.nodes, kept, p._edge_counter, FALSE,
                 [msg |-> "Edge {source} → {target} not found.",
                  source |-> source, target |-> target])
        ELSE Ret(p.nodes, kept, p._edge_counter, FALSE,
                 [msg |-> "Removed edge {source} → {target}.",
                  source |-> source, target |-> target])

remove_edge(p, source, target) ==
    LET kept == SelectSeq(p.edges,
                    LAMBDA e : ~(e.source = source /\ e.target = target))
    IN  IF Len(kept) = Len(p.edges)
        THEN Ret(p.nodes, kept, p._edge_counter, FALSE,
                 [msg |-> "Edge {source} → {target} not found.",
                  source |-> source, target |-> target])
        ELSE Ret(p.nodes, kept, p._edge_counter, FALSE,
                 [msg |-> "Removed edge {source} → {target}.",
                  source |-> source, target |-> target])

\* A payload of replace_flow is [is_json, value]: text that json.loads
\* rejects, or the text of a JSON array of objects carrying the keys the
\* tool documents, value being the array.
JSONDecodeError == [msg |-> "JSONDecodeError"]

replace_flow(p, nodes_json, edges_json) ==
    IF ~nodes_json.is_json
    THEN Ret(p.nodes, p.edges, p._edge_counter, TRUE, JSONDecodeError)
    ELSE IF ~edges_json.is_json
    THEN Ret(nodes_json.value, p.edges, p._edge_counter, TRUE, JSONDecodeError)
    ELSE Ret(nodes_json.value, edges_json.value, p._edge_counter, FALSE,
             [msg |-> "Replaced flow: {len(self.nodes)} nodes, {len(self.edges)} edges.",
              nodes |-> Len(nodes_json.value), edges |-> Len(edges_json.value)])

(***************************************************************************)
(* Extract JSON from response                                              *)
(***************************************************************************)

\* re.sub(r"<fence>(?:json)?\s*", "", raw), scanning from position i
RECURSIVE StripFences(_, _)
StripFences(t, i) ==
    LET fences == {j \in i..Len(t) : HasAt(t, j, Fence)}
        f == Min(fences)
        j == IF HasAt(t, f + 3, <<"j", "s", "o", "n">>) THEN f + 7 ELSE f + 3
    IN  IF fences = {} THEN SubSeq(t, i, Len(t))
        ELSE SubSeq(t, i, f - 1) \o StripFences(t, SkipSpace(t, j))

\* re.sub(r"<fence>\s*$", "", cleaned, flags=re.MULTILINE), scanning from
\* position i: \s* gives back whitespace until $ stands at the end of the
\* text or in front of a newline
TrailingFenceEnds(t, i) ==
    {e \in (i + 3)..SkipSpace(t, i + 3) : e = Len(t) + 1 \/ t[e] = "\n"}

RECURSIVE StripTrailingFences(_, _)
StripTrailingFences(t, i) ==
    LET fences == {j \in i..Len(t) :
                      HasAt(t, j, Fence) /\ TrailingFenceEnds(t, j) # {}}
        f == Min(fences)
    IN  IF fences = {} THEN SubSeq(t, i, Len(t))
        ELSE SubSeq(t, i, f - 1) \o StripTrailingFences(t, Max(TrailingFenceEnds(t, f)))

\* re.search(r"\{[\s\S]*\}", cleaned): from the first "{" to the last "}"
JsonSpan(t) ==
    LET opens == {i \in 1..Len(t) : t[i] = "{"}
        a == Min(opens)
        closes == {i \in 1..Len(t) : t[i] = "}" /\ i > a}
    IN  IF opens # {} /\ closes # {}
        THEN [ok |-> TRUE, text |-> SubSeq(t, a, Max(closes))]
        ELSE [ok |-> FALSE, text |-> <<>>]

\* json.loads on the subset of JSON the replies of the model use: objects,
\* arrays, strings with the escapes \" \\ \/ \n \r \t, and integers.  A
\* value is [t, v] with t one of "obj" (v the sequence of [k, v] members),
\* "arr", "str", "int".
JFail == [ok |-> FALSE, val |-> [t |-> "none", v |-> 0], pos |-> 0]
JOk(val, pos) == [ok |-> TRUE, val |-> val, pos |-> pos]

PyStr(text) == [t |-> "str", v |-> text]
PyInt(n) == [t |-> "int", v |-> n]
PyList(texts) == [t |-> "arr", v |-> [i \in 1..Len(texts) |-> PyStr(texts[i])]]

JsonEscapes == [c \in {"\"", "\\", "/", "n", "r", "t"} |->
                   CASE c = "n" -> "\n" [] c = "r" -> "\r" [] c = "t" -> "\t"
                     [] OTHER -> c]

\* the characters of a string from position i on, acc those decoded so far
RECURSIVE JsonStringBody(_, _, _)
JsonStringBody(t, i, acc) ==
    LET stops == {j \in i..Len(t) : t[j] \in {"\"", "\\", "\n", "\r", "\t"}}
        j == Min(stops)
        got == acc \o SubSeq(t, i, j - 1)
    IN  IF stops = {} THEN JFail
        ELSE IF t[j] = "\"" THEN JOk(PyStr(got), j + 1)
        ELSE IF t[j] = "\\" /\ j < Len(t) /\ t[j + 1] \in DOMAIN JsonEscapes
        THEN JsonStringBody(t, j + 2, Append(got, JsonEscapes[t[j + 1]]))
        ELSE JFail

DigitValue(c) == CHOOSE d \in 0..9 : Digits[d + 1] = c
IsDigit(c) == \E d \in 1..10 : Digits[d] = c

\* the digits of a number from position i on, n the value read so far
RECURSIVE JsonDigits(_, _, _)
JsonDigits(t, i, n) ==
    IF i <= Len(t) /\ IsDigit(t[i])
    THEN JsonDigits(t, i + 1, 10 * n + DigitValue(t[i]))
    ELSE [val |-> n, pos |-> i]

JsonNumber(t, i) ==
    LET neg == t[i] = "-"
        j == IF neg THEN i + 1 ELSE i
        ds == JsonDigits(t, j, 0)
    IN  IF j > Len(t) \/ ~IsDigit(t[j]) THEN JFail
        ELSE IF t[j] = "0" THEN JOk(PyInt(0), j + 1)
        ELSE JOk(PyInt(IF neg THEN 0 - ds.val ELSE ds.val), ds.pos)

RECURSIVE JsonValue(_, _)
RECURSIVE JsonElements(_, _, _)
RECURSIVE JsonMembers(_, _, _)

\* the elements of an array, position i standing at an element
JsonElements(t, i, acc) ==
    LET e == JsonValue(t, i)
        j == SkipSpace(t, e.pos)
    IN  IF ~e.ok \/ j > Len(t) THEN JFail
        ELSE IF t[j] = "]" THEN JOk([t |-> "arr", v |-> Append(acc, e.val)], j + 1)
        ELSE IF t[j] = "," THEN JsonElements(t, SkipSpace(t, j + 1), Append(acc, e.val))
        ELSE JFail

\* the members of an object, position i standing at a key
JsonMembers(t, i, acc) ==
    LET k == IF i <= Len(t) /\ t[i] = "\"" THEN JsonStringBody(t, i + 1, <<>>) ELSE JFail
        c == SkipSpace(t, k.pos)
        e == JsonValue(t, SkipSpace(t, c + 1))
        j == SkipSpace(t, e.pos)
        got == Append(acc, [k |-> k.val.v, v |-> e.val])
    IN  IF ~k.ok \/ c > Len(t) \/ t[c] # ":" THEN JFail
        ELSE IF ~e.ok \/ j > Len(t) THEN JFail
        ELSE IF t[j] = "}" THEN JOk([t |-> "obj", v |-> got], j + 1)
        ELSE IF t[j] = "," THEN JsonMembers(t, SkipSpace(t, j + 1), got)
        ELSE JFail

JsonValue(t, i) ==
    IF i > Len(t) THEN JFail
    ELSE IF t[i] = "\"" THEN JsonStringBody(t, i + 1, <<>>)
    ELSE IF t[i] = "{"
    THEN LET j == SkipSpace(t, i + 1)
         IN  IF j <= Len(t) /\ t[j] = "}" THEN JOk([t |-> "obj", v |-> <<>>], j + 1)
             ELSE JsonMembers(t, j, <<>>)
    ELSE IF t[i] = "["
    THEN LET j == SkipSpace(t, i + 1)
         IN  IF j <= Len(t) /\ t[j] = "]" THEN JOk([t |-> "arr", v |-> <<>>], j + 1)
             ELSE JsonElements(t, j, <<>>)
    ELSE JsonNumber(t, i)

\* json.loads(text): the value, or raised when the text is not JSON
json_loads(text) ==
    LET r == JsonValue(text, SkipSpace(text, 1))
    IN  IF r.ok /\ SkipSpace(text, r.pos) > Len(text)
        THEN [raised |-> FALSE, value |-> r.val]
        ELSE [raised |-> TRUE, value |-> JFail.val]

\* data.get(key, default): the member of that key written last
DictGet(data, key, default) ==
    LET hits == {i \in 1..Len(data.v) : data.v[i].k = key}
    IN  IF hits = {} THEN default
        ELSE data.v[Max(hits)].v

(***************************************************************************)
(* _FLOW_RE.sub(flow_block, markdown)                                      *)
(*                                                                         *)
(* re.sub reads its replacement as a template: a backslash starts an       *)
(* escape, a group reference, or an error.  _FLOW_RE has one group.        *)
(***************************************************************************)

AsciiLetters ==
    {"a", "b", "c", "d", "e", "f", "g", "h", "i", "j", "k", "l", "m", "n", "o",
     "p", "q", "r", "s", "t", "u", "v", "w", "x", "y", "z", "A", "B", "C", "D",
     "E", "F", "G", "H", "I", "J", "K", "L", "M", "N", "O", "P", "Q", "R", "S",
     "T", "U", "V", "W", "X", "Y", "Z"}

\* the template escapes; the control characters have no string literal
TemplateEscapes ==
    [c \in {"a", "b", "f", "n", "r", "t", "v", "\\"} |->
        CASE c = "a" -> "<BEL>" [] c = "b" -> "<BS>" [] c = "f" -> "<FF>"
          [] c = "n" -> "\n" [] c = "r" -> "\r" [] c = "t" -> "\t"
          [] c = "v" -> "<VT>" [] OTHER -> "\\"]

OctDigits == {"0", "1", "2", "3", "4", "5", "6", "7"}

\* the character an octal escape denotes
OctalChar == "<octal escape>"

TemplateError == [raised |-> TRUE, text |-> <<>>]
TemplateText(text) == [raised |-> FALSE, text |-> text]

\* the escape that starts with the backslash at position b of tpl: the text
\* it expands to for a match (whole, group 1 = body) and the position after it
TemplateEscape(tpl, b, whole, body) ==
    LET c == tpl[b + 1]
        isDigit(k) == k <= Len(tpl) /\ IsDigit(tpl[k])
        isOct(k) == k <= Len(tpl) /\ tpl[k] \in OctDigits
        gt == {k \in (b + 3)..Len(tpl) : tpl[k] = ">"}
        name == SubSeq(tpl, b + 3, Min(gt) - 1)
        out(text, pos) == [raised |-> FALSE, text |-> text, pos |-> pos]
        err == [raised |-> TRUE, text |-> <<>>, pos |-> 0]
    IN  IF b + 1 > Len(tpl) THEN err
        ELSE IF c = "g"
        THEN IF ~HasAt(tpl, b + 2, <<"<">>) \/ gt = {} THEN err
             ELSE IF name = <<"1">> THEN out(body, Min(gt) + 1)
             ELSE IF name = <<"0">> THEN out(whole, Min(gt) + 1)
             ELSE err
        ELSE IF c = "0"
        THEN out(<<OctalChar>>,
                 IF isOct(b + 2) THEN (IF isOct(b + 3) THEN b + 4 ELSE b + 3) ELSE b + 2)
        ELSE IF IsDigit(c)
        THEN IF isDigit(b + 2)
             THEN IF c \in OctDigits /\ isOct(b + 2) /\ isOct(b + 3)
                       /\ c \in {"1", "2", "3"}
                  THEN out(<<OctalChar>>, b + 4)
                  ELSE err
             ELSE IF c = "1" THEN out(body, b + 2) ELSE err
        ELSE IF c \in DOMAIN TemplateEscapes THEN out(<<TemplateEscapes[c]>>, b + 2)
        ELSE IF c \in AsciiLetters THEN err
        ELSE out(<<"\\", c>>, b + 2)

\* the template from position i on, expanded for one match
RECURSIVE ExpandTemplate(_, _, _, _)
ExpandTemplate(tpl, i, whole, body) ==
    LET slashes == {j \in i..Len(tpl) : tpl[j] = "\\"}
        b == Min(slashes)
        esc == TemplateEscape(tpl, b, whole, body)
        rest == ExpandTemplate(tpl, esc.pos, whole, body)
    IN  IF slashes = {} THEN TemplateText(SubSeq(tpl, i, Len(tpl)))
        ELSE IF esc.raised \/ rest.raised THEN TemplateError
        ELSE TemplateText(SubSeq(tpl, i, b - 1) \o esc.text \o rest.text)

\* md from position i on with every match of ms replaced by the template
RECURSIVE SubMatches(_, _, _, _)
SubMatches(md, i, ms, tpl) ==
    IF ms = <<>> THEN SubSeq(md, i, Len(md))
    ELSE LET m == Head(ms)
         IN  SubSeq(md, i, m.start - 1)
             \o ExpandTemplate(tpl, 1, SubSeq(md, m.start, m.close + 2),
                               SubSeq(md, m.body, m.close - 1)).text
             \o SubMatches(md, m.close + 3, Tail(ms), tpl)

\* _FLOW_RE.sub(repl, md): every flow block of md replaced; the template is
\* compiled, and may raise, whether or not md holds a block
FlowReSub(repl, md) ==
    IF ExpandTemplate(repl, 1, <<>>, <<>>).raised THEN TemplateError
    ELSE TemplateText(SubMatches(md, 1, FlowMatches(md), repl))

(***************************************************************************)
(* Main entry point: the reconciliation of run_flow_agent                  *)
(***************************************************************************)

K_markdown == <<"m", "a", "r", "k", "d", "o", "w", "n">>
K_summary == <<"s", "u", "m", "m", "a", "r", "y">>
K_nodesDelta == <<"n", "o", "d", "e", "s", "D", "e", "l", "t", "a">>
K_edgesDelta == <<"e", "d", "g", "e", "s", "D", "e", "l", "t", "a">>
K_changedNodeIds == <<"c", "h", "a", "n", "g", "e", "d", "N", "o", "d", "e", "I", "d", "s">>
K_changedEdgeIds == <<"c", "h", "a", "n", "g", "e", "d", "E", "d", "g", "e", "I", "d", "s">>

\* the fixed Japanese sentence ("the flow was updated") of lines 603 and 625,
\* kept as one symbol: the lexer rejects its characters
DefaultSummary == <<"<flow updated>">>

\* int(x) for a JSON value x: an integer as it is, a string when it is an
\* optionally signed run of digits inside whitespace, anything else raises
PyIntOf(x) ==
    LET s == Strip(x.v)
        signed == s # <<>> /\ Head(s) \in {"+", "-"}
        ds == IF signed THEN Tail(s) ELSE s
        n == JsonDigits(ds, 1, 0).val
    IN  IF x.t = "int" THEN [raised |-> FALSE, n |-> x.v]
        ELSE IF x.t = "str" /\ ds # <<>> /\ \A k \in 1..Len(ds) : IsDigit(ds[k])
        THEN [raised |-> FALSE, n |-> IF signed /\ Head(s) = "-" THEN 0 - n ELSE n]
        ELSE [raised |-> TRUE, n |-> 0]

NoSuggestion == [markdown |-> PyStr(<<>>), summary |-> PyStr(<<>>),
                 impacts |-> [nodesDelta |-> 0, edgesDelta |-> 0,
                              changedNodeIds |-> PyList(<<>>),
                              changedEdgeIds |-> PyList(<<>>)],
                 agentTrace |-> <<>>]

\* ChangedNodeIds that reports every current node
ChangedNodeIds_all(ns, orig) == [i \in 1..Len(ns) |-> ns[i].id]

\* ids of the nodes of ns that are not ids of orig, in the order of ns
ChangedNodeIds(ns, orig) ==
    LET orig_ids == {orig[i].id : i \in 1..Len(orig)}
        added == SelectSeq(ns, LAMBDA n : n.id \notin orig_ids)
    IN  [i \in 1..Len(added) |-> added[i].id]

\* the branch taken when the reply holds a {...} span
\* lines 602-607 and the return: the fields read from data, nodes_delta and
\* edges_delta being what int(...) gave
TrustedFields(markdown, data, nodes_delta, edges_delta, trace) ==
    IF nodes_delta.raised \/ edges_delta.raised
    THEN [pc |-> "RAISED", suggestion |-> NoSuggestion]
    ELSE [pc |-> "DONE",
          suggestion |->
            [markdown |-> DictGet(data, K_markdown, PyStr(markdown)),
             summary |-> DictGet(data, K_summary, PyStr(DefaultSummary)),
             impacts |->
               [nodesDelta |-> nodes_delta.n, edgesDelta |-> edges_delta.n,
                changedNodeIds |-> DictGet(data, K_changedNodeIds, PyList(<<>>)),
                changedEdgeIds |-> DictGet(data, K_changedEdgeIds, PyList(<<>>))],
             agentTrace |-> trace]]

\* line 601 onwards, loaded being what json.loads did
TrustedLoaded(markdown, loaded, trace) ==
    IF loaded.raised THEN [pc |-> "RAISED", suggestion |-> NoSuggestion]
    ELSE TrustedFields(markdown, loaded.value,
                       PyIntOf(DictGet(loaded.value, K_nodesDelta, PyInt(0))),
                       PyIntOf(DictGet(loaded.value, K_edgesDelta, PyInt(0))),
                       trace)

TrustedJson(markdown, span, trace) ==
    TrustedLoaded(markdown, json_loads(span), trace)

\* the branch taken when it holds none: rebuild markdown from tool state
FallbackWith(markdown, orig_nodes, orig_edges, p, trace, flow_block, subbed) ==
    LET updated_markdown ==
            IF subbed.text = markdown /\ p.nodes # orig_nodes
            THEN RStrip(markdown) \o <<"\n", "\n">> \o flow_block \o <<"\n">>
            ELSE subbed.text
    IN  IF subbed.raised THEN [pc |-> "RAISED", suggestion |-> NoSuggestion]
        ELSE [pc |-> "DONE_FALLBACK",
              suggestion |->
                [markdown |-> PyStr(updated_markdown),
                 summary |-> PyStr(DefaultSummary),
                 impacts |->
                   [nodesDelta |-> Len(p.nodes) - Len(orig_nodes),
                    edgesDelta |-> Len(p.edges) - Len(orig_edges),
                    changedNodeIds |-> PyList(ChangedNodeIds(p.nodes, orig_nodes)),
                    changedEdgeIds |-> PyList(<<>>)],
                 agentTrace |-> trace]]

\* flow_block = _build_flow_block(...), _FLOW_RE.sub(flow_block, markdown)
Fallback(markdown, orig_nodes, orig_edges, p, trace) ==
    FallbackWith(markdown, orig_nodes, orig_edges, p, trace,
                 _build_flow_block(p.nodes, p.edges),
                 FlowReSub(_build_flow_block(p.nodes, p.edges), markdown))

\* if json_match: ... else: ..., json_match being what re.search found
Reconciled(markdown, orig_nodes, orig_edges, p, trace, json_match) ==
    IF json_match.ok THEN TrustedJson(markdown, json_match.text, trace)
    ELSE Fallback(markdown, orig_nodes, orig_edges, p, trace)

\* lines 594-639 of run_flow_agent: from the text of the reply to the
\* Suggestion (suggestionId and executionMs, a fresh uuid and a wall-clock
\* reading, are left out)
Reconcile(markdown, orig_nodes, orig_edges, p, raw, trace) ==
    Reconciled(markdown, orig_nodes, orig_edges, p, trace,
               JsonSpan(StripTrailingFences(StripFences(raw, 1), 1)))

(***************************************************************************)
(* POST /api/agent/chat: the handlers agent_chat of the two function apps  *)
(*                                                                         *)
(* A request is [app, method, auth, body].  auth tells whether the Bearer  *)
(* token yields an oid (only the api app asks for one).  body is what      *)
(* req.get_json() meets: text that is no JSON ("invalid"), JSON that is no *)
(* object ("arr"), or an object ("obj") with its members message and       *)
(* context, each a tagged value: absent, null, str, int, arr or dict (a    *)
(* dict is given by its member markdown).  A response is the               *)
(* func.HttpResponse returned, or the exception that left the handler.     *)
(***************************************************************************)

Absent == [t |-> "absent", v |-> 0]
JNull == [t |-> "null", v |-> 0]
PyDict(md) == [t |-> "dict", v |-> md]

\* bool(x) of a value of the body; dict.get gives None for an absent key
Truthy(x) ==
    CASE x.t \in {"absent", "null"} -> FALSE
      [] x.t = "int" -> x.v # 0
      [] x.t = "dict" -> x.v.t # "absent"
      [] OTHER -> x.v # <<>>

\* x or d
OrElse(x, d) == IF Truthy(x) THEN x ELSE d

NoResponse == [kind |-> "none", status |-> 0, body |-> "none"]
\* an exception that no except clause of the handler caught
Escaped(exc) == [kind |-> "exception", status |-> 0, body |-> exc]
\* _error(message, status), _bad_request(message), _unauthorized()
_error(status) == [kind |-> "response", status |-> status, body |-> "error"]
\* _json_response(result)
_json_response(status) == [kind |-> "response", status |-> status, body |-> "suggestion"]
\* _preflight()
_preflight == [kind |-> "response", status |-> 204, body |-> "none"]
\* the handler goes on to  await run_flow_agent(message, markdown, context)
RunAgent(markdown) == [kind |-> "run", status |-> 0, body |-> markdown]

\* backend, lines 337-340: markdown = (context.get("markdown") or "").strip()
\* with md what the or gave, then  if not message
backend_markdown(message, md) ==
    IF md.t # "str" THEN Escaped("AttributeError")
    ELSE IF Strip(message.v) = <<>> THEN _error(400)
    ELSE RunAgent(Strip(md.v))

\* backend, lines 336-337: context = payload.get("context") or {}
backend_context(message, context) ==
    IF context.t # "dict" THEN Escaped("AttributeError")
    ELSE backend_markdown(message, OrElse(context.v, PyStr(<<>>)))

\* backend, line 335: message = (payload.get("message") or "").strip() with
\* message what the or gave
backend_message(message, body) ==
    IF message.t # "str" THEN Escaped("AttributeError")
    ELSE backend_context(message, OrElse(body.context, PyDict(Absent)))

\* src/backend/function_app.py agent_chat, up to the call of run_flow_agent
backend_agent_chat(req) ==
    IF req.method = "OPTIONS" THEN _preflight
    ELSE IF req.body.t = "invalid" THEN _error(400)
    ELSE IF req.body.t # "obj" THEN Escaped("AttributeError")
    ELSE backend_message(OrElse(req.body.message, PyStr(<<>>)), req.body)

\* api, lines 468-482: message = body.get("message", "").strip() with message
\* what get gave, context = body.get("context") (None becomes {}), then the
\* call of _call_agent, whose context.get raises inside the try
api_message(message, context) ==
    IF message.t # "str" THEN Escaped("AttributeError")
    ELSE IF Strip(message.v) = <<>> THEN _error(400)
    ELSE IF context.t \notin {"absent", "null", "dict"} THEN _error(500)
    ELSE _json_response(200)

\* src/api/function_app.py agent_chat
api_agent_chat(req) ==
    IF ~req.auth THEN _error(401)
    ELSE IF req.body.t = "invalid" THEN _error(400)
    ELSE IF req.body.t # "obj" THEN Escaped("AttributeError")
    ELSE api_message(IF req.body.message.t = "absent" THEN PyStr(<<>>)
                     ELSE req.body.message,
                     req.body.context)

(***************************************************************************)
(* The instructions of the agent (run_flow_agent, lines 558-577)           *)
(*                                                                         *)
(* A context is None or a dict, given by the members the code or the       *)
(* specification name; each member is a value of the JSON body (Absent,    *)
(* JNull, a string, an integer).                                           *)
(***************************************************************************)

\* run_flow_agent called with context None
NoContext ==
    [t |-> "none", templateId |-> Absent, systemPrompt |-> Absent,
     templateSystemPrompt |-> Absent]

\* the text of lines 37-151, kept as one symbol
BASE_SYSTEM_PROMPT == <<"<BASE_SYSTEM_PROMPT>">>

\* f"{x}" for a string or an integer
FormatValue(x) == IF x.t = "int" THEN IntToText(x.v) ELSE x.v

\* lines 563-572 with template_system_prompt the stripped text
Instructions(template_id, template_system_prompt) ==
    [raised |-> FALSE,
     text |-> IF template_system_prompt # <<>>
              THEN BASE_SYSTEM_PROMPT
                   \o <<"\n", "\n">>
                   \o <<"#", "#", " ", "T", "e", "m", "p", "l", "a", "t", "e", "-", "S", "p", "e", "c", "i", "f", "i", "c", " ", "R", "o", "l", "e", "\n">>
                   \o <<"(", "T", "e", "m", "p", "l", "a", "t", "e", ":", " ">>
                   \o (IF Truthy(template_id) THEN FormatValue(template_id)
                       ELSE <<"c", "u", "s", "t", "o", "m">>)
                   \o <<")", "\n">>
                   \o template_system_prompt
              ELSE BASE_SYSTEM_PROMPT]

\* combined_instructions that reads the key templateSystemPrompt
combined_instructions_templateSystemPrompt(ctx) ==
    IF ctx.templateSystemPrompt.t = "absent" THEN Instructions(ctx.templateId, <<>>)
    ELSE IF ctx.templateSystemPrompt.t # "str" THEN [raised |-> TRUE, text |-> <<>>]
    ELSE Instructions(ctx.templateId, Strip(ctx.templateSystemPrompt.v))

\* lines 561-562: (context or {}).get("templateId") and
\* (context or {}).get("systemPrompt", "").strip(): the default stands in
\* for an absent key only, and a value that is no string has no strip
combined_instructions(ctx) ==
    IF ctx.systemPrompt.t = "absent" THEN Instructions(ctx.templateId, <<>>)
    ELSE IF ctx.systemPrompt.t # "str" THEN [raised |-> TRUE, text |-> <<>>]
    ELSE Instructions(ctx.templateId, Strip(ctx.systemPrompt.v))

(***************************************************************************)
(* Inputs of one run: the document, the tool calls the model issues and    *)
(* the text it answers with                                                *)
(***************************************************************************)

\* number of tool invocations the model makes in one run
MaxCalls == 2

a == <<"a">>
b == <<"b">>
c == <<"c">>

\* "# T\n\n<fence>flow\n[a] Foo\n<fence>"
DocOneBlock == <<"#", " ", "T", "\n", "\n">> \o FlowOpen
               \o <<"\n", "[", "a", "]", " ", "F", "o", "o", "\n">> \o Fence
\* a document without a flow block
DocNoBlock == <<"#", " ", "T">>
\* "<fence>flow\n[a] -> [b]\n[b] -> [c]\n<fence>"
DocChain == FlowOpen \o <<"\n", "[", "a", "]", " ", "-", ">", " ", "[", "b", "]", "\n",
                          "[", "b", "]", " ", "-", ">", " ", "[", "c", "]", "\n">> \o Fence
\* two flow blocks with text between and after them
DocTwoBlocks == FlowOpen \o <<"\n", "[", "a", "]", " ", "F", "\n">> \o Fence
                \o <<"\n", "m", "\n">>
                \o FlowOpen \o <<"\n", "[", "b", "]", " ", "G", "\n">> \o Fence
                \o <<"\n", "z">>

\* "<fence>flow\n[a] -> [b]\n[b] -> [a]\n[a] -> [b]\n<fence>": the same edge
\* twice, and the opposite edge between them
DocDupEdges ==
    FlowOpen
    \o <<"\n", "[", "a", "]", " ", "-", ">", " ", "[", "b", "]", "\n">>
    \o <<"[", "b", "]", " ", "-", ">", " ", "[", "a", "]", "\n">>
    \o <<"[", "a", "]", " ", "-", ">", " ", "[", "b", "]", "\n">>
    \o Fence
\* a block with a node of each type, a labelled edge and a plain edge
DocAllTypes ==
    FlowOpen
    \o <<"\n", "[", "[", "i", "]", "]", " ", "I", "n", "\n">>
    \o <<"(", "(", "o", ")", ")", " ", "O", "u", "t", "\n">>
    \o <<"{", "s", "}", " ", "S", "e", "l", "\n">>
    \o <<"[", "d", "]", " ", "D", "e", "f", "\n", "\n">>
    \o <<"[", "i", "]", " ", "-", ">", " ", "[", "o", "]", " ", ":", " ", "g", "o", "\n">>
    \o <<"[", "o", "]", " ", "-", ">", " ", "[", "d", "]", "\n">>
    \o Fence
EdgeDocs == {DocDupEdges, DocAllTypes, DocNoBlock}

Docs == {DocOneBlock, DocNoBlock, DocChain, DocTwoBlocks}

AddNodeArgs ==
    { [node_id |-> a, label |-> <<"F", "o", "o">>, node_type |-> "weird"],
      [node_id |-> b, label |-> <<"B", "a", "r">>, node_type |-> "default"],
      [node_id |-> b, label |-> <<>>, node_type |-> "input"],
      [node_id |-> b, label |-> <<"\\", "q">>, node_type |-> "default"] }

RemoveNodeArgs == { [node_id |-> a], [node_id |-> b] }

AddEdgeArgs ==
    { [source |-> a, target |-> b, label |-> <<>>],
      [source |-> a, target |-> b, label |-> <<"x">>],
      [source |-> b, target |-> b, label |-> <<>>] }

RemoveEdgeArgs == { [source |-> a, target |-> b], [source |-> b, target |-> a] }

NotJson == [is_json |-> FALSE, value |-> <<>>]
JsonArray(v) == [is_json |-> TRUE, value |-> v]

ReplaceFlowArgs ==
    { [nodes_json |-> NotJson, edges_json |-> JsonArray(<<>>)],
      [nodes_json |-> JsonArray(<<>>), edges_json |-> NotJson],
      [nodes_json |-> JsonArray(<< [id |-> a, label |-> <<"A">>, type |-> "default"],
                                   [id |-> a, label |-> <<"A", "2">>, type |-> "input"] >>),
       edges_json |-> JsonArray(<<>>)],
      [nodes_json |-> JsonArray(<<>>),
       edges_json |-> JsonArray(<< [id |-> <<>>, source |-> a, target |-> b,
                                    label |-> NoLabel] >>)] }

\* The text of a JSON value, as the model writes it
RECURSIVE JsonEncodeString(_)
JsonEncodeString(t) ==
    IF t = <<>> THEN <<>>
    ELSE (CASE Head(t) = "\"" -> <<"\\", "\"">>
            [] Head(t) = "\\" -> <<"\\", "\\">>
            [] Head(t) = "\n" -> <<"\\", "n">>
            [] OTHER -> <<Head(t)>>) \o JsonEncodeString(Tail(t))

RECURSIVE JsonDumps(_)
RECURSIVE JsonDumpsAll(_, _)
JsonDumpsAll(vs, isObj) ==
    IF vs = <<>> THEN <<>>
    ELSE (IF isObj
          THEN <<"\"">> \o JsonEncodeString(Head(vs).k) \o <<"\"", ":", " ">>
               \o JsonDumps(Head(vs).v)
          ELSE JsonDumps(Head(vs)))
         \o (IF Len(vs) > 1 THEN <<",", " ">> ELSE <<>>)
         \o JsonDumpsAll(Tail(vs), isObj)

JsonDumps(x) ==
    CASE x.t = "str" -> <<"\"">> \o JsonEncodeString(x.v) \o <<"\"">>
      [] x.t = "int" -> IF x.v < 0 THEN <<"-">> \o IntToText(0 - x.v) ELSE IntToText(x.v)
      [] x.t = "arr" -> <<"[">> \o JsonDumpsAll(x.v, FALSE) \o <<"]">>
      [] x.t = "obj" -> <<"{">> \o JsonDumpsAll(x.v, TRUE) \o <<"}">>

\* the object of the output format the system prompt asks for
ReplyObject(markdown, summary, nodesDelta, edgesDelta, changedNodeIds, changedEdgeIds) ==
    [t |-> "obj",
     v |-> << [k |-> K_markdown, v |-> PyStr(markdown)],
              [k |-> K_summary, v |-> PyStr(summary)],
              [k |-> K_nodesDelta, v |-> PyInt(nodesDelta)],
              [k |-> K_edgesDelta, v |-> PyInt(edgesDelta)],
              [k |-> K_changedNodeIds, v |-> PyList(changedNodeIds)],
              [k |-> K_changedEdgeIds, v |-> PyList(changedEdgeIds)] >>]

\* a reply whose markdown holds a flow block, and one whose markdown holds none
ObjWithBlock ==
    ReplyObject(FlowOpen \o <<"\n", "[", "x", "]", " ", "X", "\n">> \o Fence,
                <<"S">>, 2, 1, << <<"x">>, <<"y">> >>, << <<"e", "-", "x", "-", "y">> >>)
ObjNoBlock ==
    ReplyObject(<<"#", " ", "U">>, <<"S">>, 1, 0, << <<"x">> >>, <<>>)

\* {"summary": "S"}: every other field is missing
ObjSummaryOnly == [t |-> "obj", v |-> << [k |-> K_summary, v |-> PyStr(<<"S">>)] >>]
\* {"nodesDelta": "many"}: a delta that is no number
ObjBadDelta ==
    [t |-> "obj", v |-> << [k |-> K_nodesDelta, v |-> PyStr(<<"m", "a", "n", "y">>)] >>]

NoObject == [t |-> "none", v |-> 0]

\* a reply is the text the model answers with and, when the model meant a
\* JSON object, that object
Replies ==
    { [obj |-> NoObject, raw |-> <<"d", "o", "n", "e">>],
      [obj |-> NoObject, raw |-> <<"u", "s", "e", "d", " ", "{", "b", "}", " ", "o", "k">>],
      [obj |-> ObjNoBlock, raw |-> JsonDumps(ObjNoBlock)],
      [obj |-> ObjSummaryOnly, raw |-> JsonDumps(ObjSummaryOnly)],
      [obj |-> ObjBadDelta, raw |-> JsonDumps(ObjBadDelta)],
      [obj |-> ObjNoBlock,
       raw |-> <<"H", "i", "\n">> \o Fence \o <<"j", "s", "o", "n", "\n">>
               \o JsonDumps(ObjNoBlock) \o <<"\n">> \o Fence \o <<"\n", "b", "y", "e">>],
      [obj |-> ObjWithBlock,
       raw |-> Fence \o <<"j", "s", "o", "n", "\n">> \o JsonDumps(ObjWithBlock)
               \o <<"\n">> \o Fence] }

(***************************************************************************)
(* Inputs of the parser alone: flow blocks written line by line.  A line   *)
(* is its text together with what it says: an edge from id to tgt with a   *)
(* label, a node id of a type with a label, or nothing ("junk").           *)
(***************************************************************************)

\* number of lines of a block
MaxLines == 2

BlockLines ==
    {
      \* [a] -> [b]
      [text |-> <<"[", "a", "]", " ", "-", ">", " ", "[", "b", "]">>,
       kind |-> "edge", id |-> <<"a">>, tgt |-> <<"b">>, label |-> <<>>, ntype |-> "default"],
      \* [a] -> [a]
      [text |-> <<"[", "a", "]", " ", "-", ">", " ", "[", "a", "]">>,
       kind |-> "edge", id |-> <<"a">>, tgt |-> <<"a">>, label |-> <<>>, ntype |-> "default"],
      \* [b] -> [x] : go
      [text |-> <<"[", "b", "]", " ", "-", ">", " ", "[", "x", "]", " ", ":", " ", "g", "o">>,
       kind |-> "edge", id |-> <<"b">>, tgt |-> <<"x">>, label |-> <<"g", "o">>, ntype |-> "default"],
      \* [[x]] Foo
      [text |-> <<"[", "[", "x", "]", "]", " ", "F", "o", "o">>,
       kind |-> "node", id |-> <<"x">>, tgt |-> <<>>, label |-> <<"F", "o", "o">>, ntype |-> "input"],
      \* ((x)) Foo
      [text |-> <<"(", "(", "x", ")", ")", " ", "F", "o", "o">>,
       kind |-> "node", id |-> <<"x">>, tgt |-> <<>>, label |-> <<"F", "o", "o">>, ntype |-> "output"],
      \* {x} Foo
      [text |-> <<"{", "x", "}", " ", "F", "o", "o">>,
       kind |-> "node", id |-> <<"x">>, tgt |-> <<>>, label |-> <<"F", "o", "o">>, ntype |-> "selector"],
      \* [x] Foo
      [text |-> <<"[", "x", "]", " ", "F", "o", "o">>,
       kind |-> "node", id |-> <<"x">>, tgt |-> <<>>, label |-> <<"F", "o", "o">>, ntype |-> "default"],
      \*   [a] Bar 
      [text |-> <<" ", " ", "[", "a", "]", " ", "B", "a", "r", " ">>,
       kind |-> "node", id |-> <<"a">>, tgt |-> <<>>, label |-> <<"B", "a", "r">>, ntype |-> "default"],
      \* hello
      [text |-> <<"h", "e", "l", "l", "o">>,
       kind |-> "junk", id |-> <<>>, tgt |-> <<>>, label |-> <<>>, ntype |-> "default"],
      \* [x]
      [text |-> <<"[", "x", "]">>,
       kind |-> "junk", id |-> <<>>, tgt |-> <<>>, label |-> <<>>, ntype |-> "default"] }

\* the blocks of at most MaxLines lines
LineSeqs == UNION {[1..n -> BlockLines] : n \in 0..MaxLines}

\* the document that holds the lines ls as its one flow block
DocOfLines(ls) ==
    FlowOpen \o <<"\n">> \o JoinLines([i \in 1..Len(ls) |-> ls[i].text])
    \o <<"\n">> \o Fence

ParseDocs == {DocOfLines(ls) : ls \in LineSeqs}

\* number of lines of each block of a document of two blocks
MaxBlockLines == 1

BlockSeqs == UNION {[1..n -> BlockLines] : n \in 0..MaxBlockLines}

\* the document that holds the blocks bs, with text before, between and
\* after them
RECURSIVE DocOfBlocks(_)
DocOfBlocks(bs) ==
    IF bs = <<>> THEN <<"z">>
    ELSE <<"#", " ", "T", "\n">> \o DocOfLines(Head(bs)) \o <<"\n">>
         \o DocOfBlocks(Tail(bs))

TwoBlocks == [1..2 -> BlockSeqs]

\* the bodies of the requests: no JSON, JSON that is no object, and objects
\* with a message (absent, null, empty, blank, a text, a number) and a
\* context (absent, a dict with the document, a dict without one, a text, a
\* dict whose markdown is a number)
ChatMessages ==
    { Absent, JNull, PyStr(<<>>), PyStr(<<" ">>), PyStr(<<"h", "i">>), PyInt(5) }
ChatContexts ==
    { Absent, PyDict(PyStr(<<"\n">> \o DocOneBlock \o <<"\n">>)), PyDict(Absent),
      PyStr(<<"x">>), PyDict(PyInt(5)) }
ChatBodies ==
    { [t |-> "invalid", message |-> Absent, context |-> Absent],
      [t |-> "arr", message |-> Absent, context |-> Absent] }
    \cup { [t |-> "obj", message |-> msg, context |-> ctx] :
              msg \in ChatMessages, ctx \in ChatContexts }

Requests ==
    { [app |-> "backend", method |-> "POST", auth |-> FALSE, body |-> bd] :
         bd \in ChatBodies }
    \cup { [app |-> "backend", method |-> "OPTIONS", auth |-> FALSE,
            body |-> [t |-> "invalid", message |-> Absent, context |-> Absent]] }
    \cup { [app |-> "api", method |-> "POST", auth |-> au, body |-> bd] :
              au \in BOOLEAN, bd \in ChatBodies }

\* the contexts of a run: None, and dicts with a templateId (absent, null,
\* empty, a text, a number), a systemPrompt (absent, null, empty, blank, a
\* text, a text in blanks) and a templateSystemPrompt (absent, a text)
ContextIds == { Absent, JNull, PyStr(<<>>), PyStr(<<"t", "1">>), PyInt(5) }
ContextPrompts ==
    { Absent, JNull, PyStr(<<>>), PyStr(<<" ">>), PyStr(<<"B", "e", " ", "x">>),
      PyStr(<<" ", "B", "e", " ", "x", "\n">>) }
ContextTemplatePrompts == { Absent, PyStr(<<"B", "e", " ", "y">>) }
Contexts ==
    { NoContext }
    \cup { [t |-> "dict", templateId |-> tid, systemPrompt |-> sp,
            templateSystemPrompt |-> tsp] :
              tid \in ContextIds, sp \in ContextPrompts,
              tsp \in ContextTemplatePrompts }

(***************************************************************************)
(* One run of run_flow_agent                                               *)
(***************************************************************************)

VARIABLES
    pc,           \* PARSING, TOOL_LOOP, DONE, DONE_FALLBACK or RAISED
    markdown,     \* the incoming document
    orig_nodes,   \* the graph parsed from it
    orig_edges,
    plugin,       \* the FlowEditorPlugin: [nodes, edges, _edge_counter]
    trace_log,    \* the trace collector
    invocations,  \* number of tool invocations made so far
    last,         \* the latest tool invocation and what it handed back
    reply,        \* the final answer of the model
    suggestion,   \* the dict run_flow_agent returns
    shared,       \* whether plugin.nodes is the list object orig_nodes names,
                  \* and plugin.edges the one orig_edges names
    request,      \* the HTTP request agent_chat handles, if the run has one
    response,     \* what agent_chat answered
    twin,         \* two invocations of run_flow_agent under way at once, and
                  \* the FlowEditorPlugin and trace_log objects they built
    context,      \* the context argument of run_flow_agent
    instructions, \* the instructions the agent is created with
    storage,      \* the blobs of one note and the storage requests under way
    written       \* the lines the document was written from, block by block,
                  \* when it was written from lines

vars == <<pc, markdown, orig_nodes, orig_edges, plugin, trace_log, invocations,
          last, reply, suggestion, shared, request, response, twin, context,
          instructions, storage, written>>

NoCall == [tool |-> "none", args |-> <<>>, raised |-> FALSE, result |-> [msg |-> ""]]
NoReply == [obj |-> NoObject, raw |-> <<>>]
Unshared == [nodes |-> FALSE, edges |-> FALSE]
\* no agent created yet
NoInstructions == [raised |-> FALSE, text |-> <<>>]
\* no storage request
NoStorage == [body |-> FALSE, meta |-> FALSE, reqs |-> <<>>]
\* no second invocation
NoTwin == [runs |-> <<>>, plugins |-> <<>>, traces |-> <<>>]
\* run_flow_agent called without a request
NoRequest == [app |-> "none", method |-> "none", auth |-> FALSE,
              body |-> [t |-> "invalid", message |-> Absent, context |-> Absent]]

Init ==
    /\ pc = "PARSING"
    /\ markdown \in Docs
    /\ orig_nodes = <<>>
    /\ orig_edges = <<>>
    /\ plugin = [nodes |-> <<>>, edges |-> <<>>, _edge_counter |-> 0]
    /\ trace_log = <<>>
    /\ invocations = 0
    /\ last = NoCall
    /\ reply = NoReply
    /\ suggestion = NoSuggestion
    /\ shared = Unshared
    /\ request = NoRequest
    /\ response = NoResponse
    /\ twin = NoTwin
    /\ context = NoContext
    /\ instructions = NoInstructions
    /\ storage = NoStorage
    /\ written = <<>>

\* lines 471-475: parse the document, hand a copy of the graph to the plugin
\* InstallGraph that hands the plugin the parsed lists themselves:
\* plugin = FlowEditorPlugin(nodes=orig_nodes, edges=orig_edges)
InstallGraph_no_copy(g) ==
    /\ orig_nodes' = g.nodes
    /\ orig_edges' = g.edges
    /\ plugin' = [nodes |-> g.nodes, edges |-> g.edges,
                  _edge_counter |-> Len(g.edges)]
    /\ shared' = [nodes |-> TRUE, edges |-> TRUE]

\* orig_nodes, orig_edges = g; plugin = FlowEditorPlugin(nodes=[dict(n) for n
\* in orig_nodes], edges=[dict(e) for e in orig_edges]): the plugin gets new
\* lists of new dicts
InstallGraph(g) ==
    /\ orig_nodes' = g.nodes
    /\ orig_edges' = g.edges
    /\ plugin' = [nodes |-> g.nodes, edges |-> g.edges,
                  _edge_counter |-> Len(g.edges)]
    /\ shared' = Unshared

\* lines 574-577: agent = _create_agent(tools, instructions), unless building
\* the instructions raised
CreateAgent(built) ==
    /\ instructions' = built
    /\ pc' = IF built.raised THEN "RAISED" ELSE "TOOL_LOOP"

ParseDocument ==
    /\ pc = "PARSING"
    /\ InstallGraph(_parse_flow(markdown))
    /\ CreateAgent(combined_instructions(context))
    /\ UNCHANGED <<markdown, trace_log, invocations, last, reply, suggestion,
                   request, response, twin, context, storage,
                   written>>

_trace(log, tool_name, args, result) ==
    Append(log, [seq |-> Len(log) + 1, type |-> "tool_call", tool |-> tool_name,
                 args |-> args, result |-> result])

\* Which of self.nodes and self.edges a tool method binds to a new list
\* (self.x = ...); the other changes it makes are made in place (append,
\* pop).  remove_node rebinds the edges once it found the node, remove_edge
\* always, replace_flow the nodes when nodes_json is JSON and the edges when
\* edges_json is JSON too.
Rebound(tool_name, args, p) ==
    CASE tool_name = "remove_node" ->
            [nodes |-> FALSE, edges |-> _node_index(p.nodes, args.node_id) # 0]
      [] tool_name = "remove_edge" -> [nodes |-> FALSE, edges |-> TRUE]
      [] tool_name = "replace_flow" ->
            [nodes |-> args.nodes_json.is_json,
             edges |-> args.nodes_json.is_json /\ args.edges_json.is_json]
      [] OTHER -> [nodes |-> FALSE, edges |-> FALSE]

\* What a tool call does to the lists orig_nodes and orig_edges name: a list
\* the plugin shares with them and changes in place changes for both
Aliasing(rb, r) ==
    /\ shared' = [nodes |-> shared.nodes /\ ~rb.nodes,
                  edges |-> shared.edges /\ ~rb.edges]
    /\ orig_nodes' = IF shared.nodes /\ ~rb.nodes THEN r.nodes ELSE orig_nodes
    /\ orig_edges' = IF shared.edges /\ ~rb.edges THEN r.edges ELSE orig_edges

\* A tool closure of run_flow_agent: it calls the plugin method, r being what
\* the method hands back, and then records the call.  A method that raises
\* leaves the closure before _trace; whether the agent framework then ends
\* the run or goes on is not in the source, so both may happen.
ToolCall(tool_name, args, trace_args, r) ==
    /\ pc = "TOOL_LOOP"
    /\ invocations < MaxCalls
    /\ invocations' = invocations + 1
    /\ plugin' = [nodes |-> r.nodes, edges |-> r.edges,
                  _edge_counter |-> r._edge_counter]
    /\ last' = [tool |-> tool_name, args |-> args, raised |-> r.raised,
                result |-> r.result]
    /\ IF r.raised
       THEN trace_log' = trace_log /\ pc' \in {"TOOL_LOOP", "RAISED"}
       ELSE trace_log' = _trace(trace_log, tool_name, trace_args, r.result)
            /\ pc' = "TOOL_LOOP"
    /\ Aliasing(Rebound(tool_name, args, plugin), r)
    /\ UNCHANGED <<markdown, reply, suggestion, request, response, twin, context,
                   instructions, storage, written>>

Tool_add_node ==
    \E x \in AddNodeArgs :
        ToolCall("add_node", x, x, add_node(plugin, x.node_id, x.label, x.node_type))

Tool_remove_node ==
    \E x \in RemoveNodeArgs :
        ToolCall("remove_node", x, x, remove_node(plugin, x.node_id))

Tool_add_edge ==
    \E x \in AddEdgeArgs :
        ToolCall("add_edge", x, x, add_edge(plugin, x.source, x.target, x.label))

Tool_remove_edge ==
    \E x \in RemoveEdgeArgs :
        ToolCall("remove_edge", x, x, remove_edge(plugin, x.source, x.target))

Tool_replace_flow ==
    \E x \in ReplaceFlowArgs :
        ToolCall("replace_flow", x,
                 [nodes_count |-> Len(x.nodes_json.value),
                  edges_count |-> Len(x.edges_json.value)],
                 replace_flow(plugin, x.nodes_json, x.edges_json))

\* the run ends on reply r with the outcome rec of the reconciliation
Return(r, rec) ==
    /\ reply' = r
    /\ pc' = rec.pc
    /\ suggestion' = rec.suggestion

\* lines 589-639: agent.run returns the final text, the run reconciles it
Finalize ==
    /\ pc = "TOOL_LOOP"
    /\ \E r \in Replies :
          Return(r, Reconcile(markdown, orig_nodes, orig_edges, plugin, r.raw,
                              trace_log))
    /\ UNCHANGED <<markdown, orig_nodes, orig_edges, plugin, trace_log,
                   invocations, last, shared, request, response, twin, context,
                   instructions, storage, written>>

Next ==
    \/ ParseDocument
    \/ Tool_add_node
    \/ Tool_remove_node
    \/ Tool_add_edge
    \/ Tool_remove_edge
    \/ Tool_replace_flow
    \/ Finalize

Spec == Init /\ [][Next]_vars

(***************************************************************************)
(* The parser alone: run_flow_agent up to the parse, on every block of     *)
(* ParseDocs                                                               *)
(***************************************************************************)

ParseInit ==
    /\ pc = "PARSING"
    /\ markdown \in ParseDocs
    /\ orig_nodes = <<>>
    /\ orig_edges = <<>>
    /\ plugin = [nodes |-> <<>>, edges |-> <<>>, _edge_counter |-> 0]
    /\ trace_log = <<>>
    /\ invocations = 0
    /\ last = NoCall
    /\ reply = NoReply
    /\ suggestion = NoSuggestion
    /\ shared = Unshared
    /\ request = NoRequest
    /\ response = NoResponse
    /\ twin = NoTwin
    /\ context = NoContext
    /\ instructions = NoInstructions
    /\ storage = NoStorage
    /\ written = <<>>

ParseNext == ParseDocument

SpecParse == ParseInit /\ [][ParseNext]_vars

(***************************************************************************)
(* One request to POST /api/agent/chat: the handler, the run it starts     *)
(* when the request is good, and its answer                                *)
(***************************************************************************)

ChatInit ==
    /\ pc = "RECEIVED"
    /\ request \in Requests
    /\ response = NoResponse
    /\ markdown = <<>>
    /\ orig_nodes = <<>>
    /\ orig_edges = <<>>
    /\ plugin = [nodes |-> <<>>, edges |-> <<>>, _edge_counter |-> 0]
    /\ trace_log = <<>>
    /\ invocations = 0
    /\ last = NoCall
    /\ reply = NoReply
    /\ suggestion = NoSuggestion
    /\ shared = Unshared
    /\ twin = NoTwin
    /\ context = NoContext
    /\ instructions = NoInstructions
    /\ storage = NoStorage
    /\ written = <<>>

\* the handler has gone as far as out says: it returned, an exception left
\* it, or it called run_flow_agent with the markdown of the context
Handled(out) ==
    IF out.kind = "run"
    THEN /\ pc' = "PARSING"
         /\ markdown' = out.body
         /\ response' = response
    ELSE /\ pc' = "RESPONDED"
         /\ markdown' = markdown
         /\ response' = out

\* src/backend/function_app.py agent_chat, lines 326-340
BackendAgentChat ==
    /\ pc = "RECEIVED"
    /\ request.app = "backend"
    /\ Handled(backend_agent_chat(request))
    /\ UNCHANGED <<orig_nodes, orig_edges, plugin, trace_log, invocations, last,
                   reply, suggestion, shared, request, twin, context,
                   instructions, storage, written>>

\* src/backend/function_app.py agent_chat, lines 342-350: the run returned a
\* Suggestion, or raised and an except clause made the error response
BackendRespond ==
    /\ pc \in {"DONE", "DONE_FALLBACK", "RAISED"}
    /\ request.app = "backend"
    /\ response' = IF pc = "RAISED" THEN _error(500) ELSE _json_response(200)
    /\ pc' = "RESPONDED"
    /\ UNCHANGED <<markdown, orig_nodes, orig_edges, plugin, trace_log, invocations,
                   last, reply, suggestion, shared, request, twin, context,
                   instructions, storage, written>>

\* src/api/function_app.py agent_chat, lines 457-482
ApiAgentChat ==
    /\ pc = "RECEIVED"
    /\ request.app = "api"
    /\ response' = api_agent_chat(request)
    /\ pc' = "RESPONDED"
    /\ UNCHANGED <<markdown, orig_nodes, orig_edges, plugin, trace_log, invocations,
                   last, reply, suggestion, shared, request, twin, context,
                   instructions, storage, written>>

ChatNext ==
    \/ BackendAgentChat
    \/ ApiAgentChat
    \/ ParseDocument
    \/ Tool_add_node
    \/ Tool_remove_node
    \/ Tool_add_edge
    \/ Tool_remove_edge
    \/ Tool_replace_flow
    \/ Finalize
    \/ BackendRespond

SpecChat == ChatInit /\ [][ChatNext]_vars

(***************************************************************************)
(* The parse of a document of two flow blocks                              *)
(***************************************************************************)

BlocksInit ==
    /\ pc = "PARSING"
    /\ written \in TwoBlocks
    /\ markdown = DocOfBlocks(written)
    /\ orig_nodes = <<>>
    /\ orig_edges = <<>>
    /\ plugin = [nodes |-> <<>>, edges |-> <<>>, _edge_counter |-> 0]
    /\ trace_log = <<>>
    /\ invocations = 0
    /\ last = NoCall
    /\ reply = NoReply
    /\ suggestion = NoSuggestion
    /\ shared = Unshared
    /\ request = NoRequest
    /\ response = NoResponse
    /\ twin = NoTwin
    /\ context = NoContext
    /\ instructions = NoInstructions
    /\ storage = NoStorage

BlocksNext == ParseDocument

SpecBlocks == BlocksInit /\ [][BlocksNext]_vars

(***************************************************************************)
(* One run on a document whose block repeats an edge, on one with a node   *)
(* of each type, and on one without a block                                *)
(***************************************************************************)

EdgesInit ==
    /\ pc = "PARSING"
    /\ markdown \in EdgeDocs
    /\ orig_nodes = <<>>
    /\ orig_edges = <<>>
    /\ plugin = [nodes |-> <<>>, edges |-> <<>>, _edge_counter |-> 0]
    /\ trace_log = <<>>
    /\ invocations = 0
    /\ last = NoCall
    /\ reply = NoReply
    /\ suggestion = NoSuggestion
    /\ shared = Unshared
    /\ request = NoRequest
    /\ response = NoResponse
    /\ twin = NoTwin
    /\ context = NoContext
    /\ instructions = NoInstructions
    /\ storage = NoStorage
    /\ written = <<>>

SpecEdges == EdgesInit /\ [][Next]_vars

(***************************************************************************)
(* run_flow_agent with a context, up to the creation of the agent          *)
(***************************************************************************)

InstrInit ==
    /\ pc = "PARSING"
    /\ markdown \in {DocOneBlock, DocNoBlock}
    /\ orig_nodes = <<>>
    /\ orig_edges = <<>>
    /\ plugin = [nodes |-> <<>>, edges |-> <<>>, _edge_counter |-> 0]
    /\ trace_log = <<>>
    /\ invocations = 0
    /\ last = NoCall
    /\ reply = NoReply
    /\ suggestion = NoSuggestion
    /\ shared = Unshared
    /\ request = NoRequest
    /\ response = NoResponse
    /\ twin = NoTwin
    /\ context \in Contexts
    /\ instructions = NoInstructions
    /\ storage = NoStorage
    /\ written = <<>>

InstrNext == ParseDocument

SpecInstr == InstrInit /\ [][InstrNext]_vars

(***************************************************************************)
(* Two invocations of run_flow_agent under way at once                     *)
(*                                                                         *)
(* run_flow_agent is a coroutine: while one invocation awaits agent.run,   *)
(* the steps of another may run.  Each invocation has its own locals; what *)
(* its closures change are the objects its locals name.  twin.plugins and  *)
(* twin.traces are the FlowEditorPlugin and trace_log objects built so     *)
(* far, an object being named by its index; twin.runs[i] are the locals of *)
(* invocation i, plugin and trace_log holding the index of the object (0:  *)
(* not yet built), calls the tool calls the model has made in it.          *)
(***************************************************************************)

NewRun(md) ==
    [pc |-> "PARSING", markdown |-> md, orig_nodes |-> <<>>, orig_edges |-> <<>>,
     plugin |-> 0, trace_log |-> 0, invocations |-> 0, calls |-> <<>>,
     reply |-> NoReply, suggestion |-> NoSuggestion]

\* tool calls the model makes in each of the two invocations
MaxTwinCalls == 1

\* the documents, tool calls and replies of the two invocations
TwinDocs == {DocOneBlock, DocNoBlock}
TwinCalls ==
    << [tool |-> "add_node",
        args |-> [node_id |-> b, label |-> <<"B", "a", "r">>, node_type |-> "default"]],
       [tool |-> "remove_node", args |-> [node_id |-> a]],
       [tool |-> "add_edge", args |-> [source |-> a, target |-> b, label |-> <<>>]],
       [tool |-> "remove_edge", args |-> [source |-> a, target |-> b]] >>
TwinReplies ==
    { [obj |-> NoObject, raw |-> <<"d", "o", "n", "e">>],
      [obj |-> ObjNoBlock, raw |-> JsonDumps(ObjNoBlock)] }

\* the plugin method a tool closure calls
CallTool(p, call) ==
    CASE call.tool = "add_node" ->
            add_node(p, call.args.node_id, call.args.label, call.args.node_type)
      [] call.tool = "remove_node" -> remove_node(p, call.args.node_id)
      [] call.tool = "add_edge" ->
            add_edge(p, call.args.source, call.args.target, call.args.label)
      [] call.tool = "remove_edge" ->
            remove_edge(p, call.args.source, call.args.target)

\* Alloc where there is one object for all invocations (a module-level
\* plugin or trace_log): building it anew replaces the one all closures use
Alloc_singleton(heap, obj) ==
    IF heap = <<>> THEN [heap |-> <<obj>>, ref |-> 1]
    ELSE [heap |-> [heap EXCEPT ![1] = obj], ref |-> 1]

\* FlowEditorPlugin(...) and  trace_log = []  inside run_flow_agent: a new
\* object at every invocation
Alloc(heap, obj) == [heap |-> Append(heap, obj), ref |-> Len(heap) + 1]

TwinPlugin(g) == [nodes |-> g.nodes, edges |-> g.edges, _edge_counter |-> Len(g.edges)]

TwinInit ==
    /\ pc = "PARSING"
    /\ markdown = <<>>
    /\ orig_nodes = <<>>
    /\ orig_edges = <<>>
    /\ plugin = [nodes |-> <<>>, edges |-> <<>>, _edge_counter |-> 0]
    /\ trace_log = <<>>
    /\ invocations = 0
    /\ last = NoCall
    /\ reply = NoReply
    /\ suggestion = NoSuggestion
    /\ shared = Unshared
    /\ request = NoRequest
    /\ response = NoResponse
    /\ \E d1, d2 \in TwinDocs :
          twin = [runs |-> <<NewRun(d1), NewRun(d2)>>, plugins |-> <<>>,
                  traces |-> <<>>]
    /\ context = NoContext
    /\ instructions = NoInstructions
    /\ storage = NoStorage
    /\ written = <<>>

\* the variables of the invocation that is not one of the two
Single == <<pc, markdown, orig_nodes, orig_edges, plugin, trace_log, invocations,
            last, reply, suggestion, shared, request, response, context,
            instructions, storage, written>>

\* lines 471-478 in invocation i, g being the parsed graph, pl and tr the
\* objects built
TwinInstall(i, g, pl, tr) ==
    twin' = [runs |-> [twin.runs EXCEPT ![i] =
                          [@ EXCEPT !.pc = "TOOL_LOOP", !.orig_nodes = g.nodes,
                                    !.orig_edges = g.edges, !.plugin = pl.ref,
                                    !.trace_log = tr.ref]],
             plugins |-> pl.heap,
             traces |-> tr.heap]

TwinParsed(i, g) ==
    TwinInstall(i, g, Alloc(twin.plugins, TwinPlugin(g)), Alloc(twin.traces, <<>>))

TwinParseDocument(i) ==
    /\ twin.runs[i].pc = "PARSING"
    /\ TwinParsed(i, _parse_flow(twin.runs[i].markdown))
    /\ UNCHANGED Single

\* a tool closure of invocation i ran: the method changed the plugin object
\* the closure names and _trace appended to the trace_log object it names
TwinCalled(i, call, r) ==
    twin' = [runs |-> [twin.runs EXCEPT ![i] =
                          [@ EXCEPT !.invocations = @ + 1,
                                    !.calls = Append(@, call)]],
             plugins |-> [twin.plugins EXCEPT ![twin.runs[i].plugin] =
                             [nodes |-> r.nodes, edges |-> r.edges,
                              _edge_counter |-> r._edge_counter]],
             traces |-> [twin.traces EXCEPT ![twin.runs[i].trace_log] =
                            _trace(@, call.tool, call.args, r.result)]]

TwinToolCall(i) ==
    /\ twin.runs[i].pc = "TOOL_LOOP"
    /\ twin.runs[i].invocations < MaxTwinCalls
    /\ \E k \in 1..Len(TwinCalls) :
          TwinCalled(i, TwinCalls[k],
                     CallTool(twin.plugins[twin.runs[i].plugin], TwinCalls[k]))
    /\ UNCHANGED Single

TwinReturn(i, r, rec) ==
    twin' = [twin EXCEPT !.runs[i] =
                [@ EXCEPT !.pc = rec.pc, !.reply = r, !.suggestion = rec.suggestion]]

TwinReconcile(run, r) ==
    Reconcile(run.markdown, run.orig_nodes, run.orig_edges,
              twin.plugins[run.plugin], r.raw, twin.traces[run.trace_log])

TwinFinalize(i) ==
    /\ twin.runs[i].pc = "TOOL_LOOP"
    /\ \E r \in TwinReplies : TwinReturn(i, r, TwinReconcile(twin.runs[i], r))
    /\ UNCHANGED Single

TwinNext ==
    \E i \in 1..2 :
        \/ TwinParseDocument(i)
        \/ TwinToolCall(i)
        \/ TwinFinalize(i)

SpecTwin == TwinInit /\ [][TwinNext]_vars

(***************************************************************************)
(* save_note and delete_note requests of one user on one note id           *)
(* (src/api/function_app.py)                                               *)
(*                                                                         *)
(* storage.body and storage.meta say whether the blobs {oid}/{id}.md and   *)
(* {oid}/{id}.json exist; storage.reqs[i] is request i: its kind, the      *)
(* place it has reached and, once answered, its status.  Each call of a    *)
(* blob helper is one step.  A download or a delete of a blob that does    *)
(* not exist raises, which the handler answers with 500.                   *)
(***************************************************************************)

\* number of requests under way at once
MaxRequests == 2

NewRequest(kind) == [kind |-> kind, at |-> "start", status |-> 0]

RequestSeqs == UNION {[1..n -> {NewRequest("save"), NewRequest("delete")}] :
                         n \in 1..MaxRequests}

StoreInit ==
    /\ pc = "PARSING"
    /\ markdown = <<>>
    /\ orig_nodes = <<>>
    /\ orig_edges = <<>>
    /\ plugin = [nodes |-> <<>>, edges |-> <<>>, _edge_counter |-> 0]
    /\ trace_log = <<>>
    /\ invocations = 0
    /\ last = NoCall
    /\ reply = NoReply
    /\ suggestion = NoSuggestion
    /\ shared = Unshared
    /\ request = NoRequest
    /\ response = NoResponse
    /\ twin = NoTwin
    /\ context = NoContext
    /\ instructions = NoInstructions
    /\ written = <<>>
    /\ \E saved \in BOOLEAN, rs \in RequestSeqs :
          storage = [body |-> saved, meta |-> saved, reqs |-> rs]

\* the variables the storage requests leave alone
NotStorage == <<pc, markdown, orig_nodes, orig_edges, plugin, trace_log, invocations,
                last, reply, suggestion, shared, request, response, twin, context,
                instructions, written>>

\* request i is a kind request at the place at
At(i, kind, at) ==
    /\ i \in DOMAIN storage.reqs
    /\ storage.reqs[i].kind = kind
    /\ storage.reqs[i].at = at

\* request i goes on to the place at with the blobs body and meta
GoOn(i, at, body, meta) ==
    /\ storage' = [body |-> body, meta |-> meta,
                   reqs |-> [storage.reqs EXCEPT ![i].at = at]]
    /\ UNCHANGED NotStorage

\* request i is answered with status
Answer(i, status, body, meta) ==
    /\ storage' = [body |-> body, meta |-> meta,
                   reqs |-> [storage.reqs EXCEPT ![i].at = "done",
                                                 ![i].status = status]]
    /\ UNCHANGED NotStorage

\* save_note line 273: _upload_blob(storage, CONTAINER_BODY, ...)
SaveUploadBody(i) ==
    /\ At(i, "save", "start")
    /\ GoOn(i, "body_uploaded", TRUE, storage.meta)

\* save_note lines 274-282: _upload_blob(storage, CONTAINER_META, ...), then
\* the response
SaveUploadMeta(i) ==
    /\ At(i, "save", "body_uploaded")
    /\ Answer(i, 200, storage.body, TRUE)

\* delete_note lines 340-341: if not _blob_exists(meta): return _not_found()
DeleteExistsMeta(i) ==
    /\ At(i, "delete", "start")
    /\ IF storage.meta THEN GoOn(i, "meta_seen", storage.body, storage.meta)
       ELSE Answer(i, 404, storage.body, storage.meta)

\* delete_note lines 343-346: _download_blob(meta) and the ownership check
DeleteDownloadMeta(i) ==
    /\ At(i, "delete", "meta_seen")
    /\ IF storage.meta THEN GoOn(i, "meta_read", storage.body, storage.meta)
       ELSE Answer(i, 500, storage.body, storage.meta)

\* delete_note line 348: _delete_blob(meta)
DeleteMeta(i) ==
    /\ At(i, "delete", "meta_read")
    /\ IF storage.meta THEN GoOn(i, "meta_deleted", storage.body, FALSE)
       ELSE Answer(i, 500, storage.body, storage.meta)

\* delete_note line 350: if _blob_exists(body)
DeleteExistsBody(i) ==
    /\ At(i, "delete", "meta_deleted")
    /\ IF storage.body THEN GoOn(i, "body_seen", storage.body, storage.meta)
       ELSE Answer(i, 204, storage.body, storage.meta)

\* delete_note lines 351-357: _delete_blob(body), then the response
DeleteBody(i) ==
    /\ At(i, "delete", "body_seen")
    /\ IF storage.body THEN Answer(i, 204, FALSE, storage.meta)
       ELSE Answer(i, 500, storage.body, storage.meta)

StoreNext ==
    \E i \in 1..MaxRequests :
        \/ SaveUploadBody(i)
        \/ SaveUploadMeta(i)
        \/ DeleteExistsMeta(i)
        \/ DeleteDownloadMeta(i)
        \/ DeleteMeta(i)
        \/ DeleteExistsBody(i)
        \/ DeleteBody(i)

SpecStore == StoreInit /\ [][StoreNext]_vars

(***************************************************************************)
(* Properties                                                              *)
(***************************************************************************)

NodeTypes == {"default", "input", "output", "selector"}

NoDuplicateIds(ns) == \A i, j \in 1..Len(ns) : ns[i].id = ns[j].id => i = j

NodeTriples(ns) == [i \in 1..Len(ns) |-> <<ns[i].id, ns[i].label, ns[i].type>>]
EdgeTriples(es) == [i \in 1..Len(es) |-> <<es[i].source, es[i].target, es[i].label>>]

\* the latest step was an invocation of tool
Invoked(tool) == invocations' = invocations + 1 /\ last'.tool = tool

Finished == pc \in {"DONE", "DONE_FALLBACK", "RAISED"}

\* the k-th smallest element of a set of integers
Kth(S, k) == CHOOSE j \in S : Cardinality({i \in S : i < j}) = k - 1

\* sub holds the elements of seq at the positions keep, in their order
IsSubSeqAt(sub, seq, keep) ==
    /\ Len(sub) = Cardinality(keep)
    /\ \A i \in 1..Len(sub) : sub[i] = seq[Kth(keep, i)]

\* C1: round trip.  Whenever the graph of the toolkit has no duplicate node
\* ids and only the four node types, parsing its serialisation gives back
\* the same (id, label, type) and (source, target, label) triples.
C1_RoundTrip ==
    (NoDuplicateIds(plugin.nodes)
     /\ \A i \in 1..Len(plugin.nodes) : plugin.nodes[i].type \in NodeTypes)
    => LET g == _parse_flow(_build_flow_block(plugin.nodes, plugin.edges))
       IN  /\ NodeTriples(g.nodes) = NodeTriples(plugin.nodes)
           /\ EdgeTriples(g.edges) = EdgeTriples(plugin.edges)

\* C2: idempotent re-serialisation.  Serialising the graph of the toolkit,
\* parsing the text and serialising again gives the first text.
C2_Reserialize ==
    LET text == _build_flow_block(plugin.nodes, plugin.edges)
        g == _parse_flow(text)
    IN  _build_flow_block(g.nodes, g.edges) = text

\* C3: a toolkit operation always hands back a status string, it never
\* raises.
C3_NeverRaises == ~last.raised

\* C4 as first stated: remove_node(id) with id present leaves no node id,
\* no edge from or to id, keeps every other edge in order, and reports the
\* number of edges it removed.
C4_CascadeDelete ==
    [][ (Invoked("remove_node")
         /\ _node_index(plugin.nodes, last'.args.node_id) # 0)
        => LET id == last'.args.node_id
               keep == {j \in 1..Len(plugin.edges) :
                           plugin.edges[j].source # id /\ plugin.edges[j].target # id}
           IN  /\ ~last'.raised
               /\ \A i \in 1..Len(plugin'.nodes) : plugin'.nodes[i].id # id
               /\ \A i \in 1..Len(plugin'.edges) :
                     plugin'.edges[i].source # id /\ plugin'.edges[i].target # id
               /\ IsSubSeqAt(plugin'.edges, plugin.edges, keep)
               /\ last'.result.removed_edges = Len(plugin.edges) - Len(plugin'.edges)
      ]_vars

\* C4, amended: remove_node(id) with id present removes the first node
\* whose id is id and keeps the other nodes in order, so that id is absent
\* afterwards when one node carried it; no edge from or to id remains,
\* every other edge is kept in order, and the number reported is the number
\* of edges removed.
C4_CascadeDeleteFirstNode ==
    [][ (Invoked("remove_node")
         /\ \E i \in 1..Len(plugin.nodes) : plugin.nodes[i].id = last'.args.node_id)
        => LET id == last'.args.node_id
               holders == {j \in 1..Len(plugin.nodes) : plugin.nodes[j].id = id}
               keep == {j \in 1..Len(plugin.edges) :
                           plugin.edges[j].source # id /\ plugin.edges[j].target # id}
           IN  /\ ~last'.raised
               /\ IsSubSeqAt(plugin'.nodes, plugin.nodes,
                             (1..Len(plugin.nodes)) \ {Kth(holders, 1)})
               /\ Cardinality(holders) = 1
                     => \A i \in 1..Len(plugin'.nodes) : plugin'.nodes[i].id # id
               /\ \A i \in 1..Len(plugin'.edges) :
                     plugin'.edges[i].source # id /\ plugin'.edges[i].target # id
               /\ IsSubSeqAt(plugin'.edges, plugin.edges, keep)
               /\ last'.result.msg =
                     "Removed node '{node_id}' and {removed_edges} connected edge(s)."
               /\ last'.result.removed_edges = Len(plugin.edges) - Len(plugin'.edges)
      ]_vars

\* nodes a, b, c with the edges a -> b and b -> c: remove_node(b) left the
\* nodes a and c and no edge, and reported 2
C4_Witness ==
    /\ markdown = DocChain
    /\ invocations = 1
    /\ last.tool = "remove_node"
    /\ last.args.node_id = b
    /\ last.result.removed_edges = 2
    /\ [i \in 1..Len(plugin.nodes) |-> plugin.nodes[i].id] = <<a, c>>
    /\ plugin.edges = <<>>

\* C5: a toolkit operation that reports a failure leaves the graph as it
\* was.  add_node with an id that is present answers "already exists",
\* remove_node with an absent id and remove_edge without a matching edge
\* answer "not found", and after any such answer the nodes and the edges
\* are those from before the call.
FailureMessages ==
    {"Node '{node_id}' already exists.", "Node '{node_id}' not found.",
     "Edge {source} → {target} not found."}

C5_FailureLeavesGraph ==
    [][ (invocations' = invocations + 1)
        => LET x == last'.args
               present(id) == \E i \in 1..Len(plugin.nodes) : plugin.nodes[i].id = id
           IN  /\ (last'.tool = "add_node" /\ present(x.node_id))
                    => last'.result.msg = "Node '{node_id}' already exists."
               /\ (last'.tool = "remove_node" /\ ~present(x.node_id))
                    => last'.result.msg = "Node '{node_id}' not found."
               /\ (last'.tool = "remove_edge"
                   /\ \A i \in 1..Len(plugin.edges) :
                         ~(plugin.edges[i].source = x.source
                           /\ plugin.edges[i].target = x.target))
                    => last'.result.msg = "Edge {source} → {target} not found."
               /\ (~last'.raised /\ last'.result.msg \in FailureMessages)
                    => (plugin'.nodes = plugin.nodes /\ plugin'.edges = plugin.edges)
      ]_vars

\* add_node("a", ...) answered "already exists" after an earlier add_node
\* of a had added it, and the graph holds exactly one node a
C5_Witness ==
    /\ last.tool = "add_node"
    /\ last.args.node_id = a
    /\ last.result.msg = "Node '{node_id}' already exists."
    /\ Len(trace_log) = 2
    /\ trace_log[1].tool = "add_node"
    /\ trace_log[1].args.node_id = a
    /\ trace_log[1].result.msg = "Added {node_type} node '{node_id}' ({label})."
    /\ Cardinality({i \in 1..Len(plugin.nodes) : plugin.nodes[i].id = a}) = 1

\* the object obj has a member of that key
HasKey(obj, key) == \E i \in 1..Len(obj.v) : obj.v[i].k = key

\* C6: in the trusted-JSON path the Suggestion carries the fields of the
\* object the model replied with, as they are.
C6_TrustedVerbatim ==
    (pc = "DONE" /\ reply.obj.t = "obj")
    => /\ HasKey(reply.obj, K_markdown)
            => suggestion.markdown = DictGet(reply.obj, K_markdown, NoObject)
       /\ HasKey(reply.obj, K_summary)
            => suggestion.summary = DictGet(reply.obj, K_summary, NoObject)
       /\ HasKey(reply.obj, K_nodesDelta)
            => PyInt(suggestion.impacts.nodesDelta)
               = DictGet(reply.obj, K_nodesDelta, NoObject)
       /\ HasKey(reply.obj, K_edgesDelta)
            => PyInt(suggestion.impacts.edgesDelta)
               = DictGet(reply.obj, K_edgesDelta, NoObject)
       /\ HasKey(reply.obj, K_changedNodeIds)
            => suggestion.impacts.changedNodeIds
               = DictGet(reply.obj, K_changedNodeIds, NoObject)
       /\ HasKey(reply.obj, K_changedEdgeIds)
            => suggestion.impacts.changedEdgeIds
               = DictGet(reply.obj, K_changedEdgeIds, NoObject)

\* the final text holds no span from its first "{" to its last "}" that is
\* valid JSON
NoParseableJson(raw) ==
    LET m == JsonSpan(StripTrailingFences(StripFences(raw, 1), 1))
    IN  ~m.ok \/ json_loads(m.text).raised

\* C7: malformed model output is never fatal.  A run whose model answered
\* with a final text that holds no parseable JSON ends in the fallback path
\* with a Suggestion.
C7_MalformedNeverFatal ==
    (Finished /\ reply # NoReply /\ NoParseableJson(reply.raw))
    => pc = "DONE_FALLBACK"

\* C8: in the fallback path nodesDelta and edgesDelta are the differences
\* of the node and edge counts of the toolkit and of the graph parsed from
\* the document, changedNodeIds lists, in the order of the toolkit, the ids
\* of its nodes that are no ids of the parsed graph, and changedEdgeIds is
\* empty.
C8_FallbackDeltas ==
    pc = "DONE_FALLBACK"
    => LET orig == _parse_flow(markdown)
           new == {j \in 1..Len(plugin.nodes) :
                      \A k \in 1..Len(orig.nodes) :
                          orig.nodes[k].id # plugin.nodes[j].id}
           ids == suggestion.impacts.changedNodeIds
       IN  /\ suggestion.impacts.nodesDelta = Len(plugin.nodes) - Len(orig.nodes)
           /\ suggestion.impacts.edgesDelta = Len(plugin.edges) - Len(orig.edges)
           /\ ids.t = "arr"
           /\ Len(ids.v) = Cardinality(new)
           /\ \A i \in 1..Len(ids.v) : ids.v[i] = PyStr(plugin.nodes[Kth(new, i)].id)
           /\ suggestion.impacts.changedEdgeIds = [t |-> "arr", v |-> <<>>]

\* the scenario of the document "# T" with the block "[a] Foo": the tools
\* added b and the edge a -> b, the reply was prose
C8_Witness ==
    /\ pc = "DONE_FALLBACK"
    /\ markdown = DocOneBlock
    /\ Len(trace_log) = 2
    /\ trace_log[1].tool = "add_node"
    /\ trace_log[1].args.node_id = b
    /\ trace_log[2].tool = "add_edge"
    /\ trace_log[2].args.source = a
    /\ trace_log[2].args.target = b
    /\ suggestion.impacts = [nodesDelta |-> 1, edgesDelta |-> 1,
                             changedNodeIds |-> PyList(<<b>>),
                             changedEdgeIds |-> PyList(<<>>)]

\* C9: in the fallback path a document with flow blocks gets the rebuilt
\* block in place of its first block only: the text before it and all the
\* text after it, later blocks included, stay as they were.
C9_FirstBlockOnly ==
    (pc = "DONE_FALLBACK" /\ FlowMatches(markdown) # <<>>)
    => LET m == FlowMatches(markdown)[1]
       IN  suggestion.markdown.v =
              SubSeq(markdown, 1, m.start - 1)
              \o _build_flow_block(plugin.nodes, plugin.edges)
              \o SubSeq(markdown, m.close + 3, Len(markdown))

\* C10: in the fallback path the rebuilt block is appended, after a blank
\* line, exactly when the document holds no flow block and the graph of the
\* toolkit differs from the parsed one; a document that holds a flow block
\* never gains one.
C10_AppendIff ==
    pc = "DONE_FALLBACK"
    => LET block == _build_flow_block(plugin.nodes, plugin.edges)
           appended == suggestion.markdown.v =
                          RStrip(markdown) \o <<"\n", "\n">> \o block \o <<"\n">>
           changed == plugin.nodes # orig_nodes \/ plugin.edges # orig_edges
       IN  /\ appended <=> (FlowMatches(markdown) = <<>> /\ changed)
           /\ FlowMatches(markdown) # <<>>
                => Len(FlowMatches(suggestion.markdown.v)) <= Len(FlowMatches(markdown))

\* C11: every run terminates with a Suggestion whatever the model answers.
\* Once agent.run has handed back the final text, the run has ended in DONE
\* or DONE_FALLBACK.  (The ceiling of 10 rounds is no part of the source:
\* line 589 calls agent.run without a limit.)
C11_EndsWithSuggestion ==
    reply # NoReply => pc \in {"DONE", "DONE_FALLBACK"}

\* C12: the trace is an append-only log with one entry per tool invocation.
\* Every step keeps the entries there were, the i-th entry has seq = i, the
\* log is as long as the number of invocations made, and an invocation
\* appends the entry of the tool that ran.
C12_TraceAppendOnly ==
    [][ /\ Len(trace_log') >= Len(trace_log)
        /\ SubSeq(trace_log', 1, Len(trace_log)) = trace_log
        /\ Len(trace_log') = invocations'
        /\ \A i \in 1..Len(trace_log') : trace_log'[i].seq = i
        /\ invocations' = invocations + 1
             => /\ Len(trace_log') = Len(trace_log) + 1
                /\ trace_log'[Len(trace_log')].tool = last'.tool
                /\ trace_log'[Len(trace_log')].result = last'.result
      ]_vars

\* the arguments of the latest invocation were replace_flow payloads of
\* which one is no JSON
UnparseableArgs ==
    /\ last.tool = "replace_flow"
    /\ ~last.args.nodes_json.is_json \/ ~last.args.edges_json.is_json

\* C13: a tool call whose arguments cannot be parsed does not abort the
\* run.  It hands back a failure string, which is the result of the newest
\* trace entry, and the run goes on.
C13_UnparseableArgsTraced ==
    UnparseableArgs
    => /\ ~last.raised
       /\ pc # "RAISED"
       /\ trace_log # <<>>
       /\ trace_log[Len(trace_log)].tool = "replace_flow"
       /\ trace_log[Len(trace_log)].result = last.result

\* What a block of lines says, read line by line: the ids in the order they
\* are first named, an edge naming its source before its target, each with
\* the line that named it first
RECURSIVE NamedIds(_, _, _)
NamedIds(ls, k, acc) ==
    IF k > Len(ls) THEN acc
    ELSE LET l == ls[k]
             seen == {acc[i].id : i \in 1..Len(acc)}
             src == IF l.kind = "edge" /\ l.id \notin seen
                    THEN <<[id |-> l.id, label |-> l.id, type |-> "default",
                            by |-> "edge"]>>
                    ELSE <<>>
             tgt == IF l.kind = "edge" /\ l.tgt \notin seen /\ l.tgt # l.id
                    THEN <<[id |-> l.tgt, label |-> l.tgt, type |-> "default",
                            by |-> "edge"]>>
                    ELSE <<>>
             nd  == IF l.kind = "node" /\ l.id \notin seen
                    THEN <<[id |-> l.id, label |-> l.label, type |-> l.ntype,
                            by |-> "node"]>>
                    ELSE <<>>
         IN  NamedIds(ls, k + 1, acc \o src \o tgt \o nd)

\* the edge lines of a block, in order
EdgeLines(ls) == SelectSeq(ls, LAMBDA l : l.kind = "edge")

\* the run has parsed the block of the lines ls
Parsed(ls) == pc # "PARSING" /\ markdown = DocOfLines(ls)

\* C14: auto-materialisation on parse.  Every edge line gives one edge, in
\* order, with its source, target and label, and every id an edge line is
\* the first to name is a node of type default whose label is the id, at the
\* place of its first naming, source before target; no id is a node twice.
C14_AutoMaterialize ==
    \A ls \in LineSeqs :
        Parsed(ls)
        => LET named == NamedIds(ls, 1, <<>>)
               es == EdgeLines(ls)
           IN  /\ Len(orig_nodes) = Len(named)
               /\ \A i \in 1..Len(named) :
                     named[i].by = "edge"
                     => orig_nodes[i] = [id |-> named[i].id, label |-> named[i].id,
                                         type |-> "default"]
               /\ NoDuplicateIds(orig_nodes)
               /\ Len(orig_edges) = Len(es)
               /\ \A j \in 1..Len(es) :
                     /\ orig_edges[j].source = es[j].id
                     /\ orig_edges[j].target = es[j].tgt
                     /\ orig_edges[j].label = es[j].label
                     /\ \E i \in 1..Len(orig_nodes) : orig_nodes[i].id = es[j].id
                     /\ \E i \in 1..Len(orig_nodes) : orig_nodes[i].id = es[j].tgt

\* the block that holds only the line [a] -> [b] was parsed into the nodes
\* a and b and one edge
C14_Witness ==
    /\ pc = "TOOL_LOOP"
    /\ markdown = FlowOpen \o <<"\n", "[", "a", "]", " ", "-", ">", " ", "[", "b", "]",
                                "\n">> \o Fence
    /\ orig_nodes = << [id |-> a, label |-> a, type |-> "default"],
                       [id |-> b, label |-> b, type |-> "default"] >>
    /\ Len(orig_edges) = 1

\* C15: line classification.  A line is an edge, else an input, output,
\* selector or default node, the first pattern that matches deciding: every
\* id a node line is the first to name is a node with the id, label and
\* type of that line, and a line matching no pattern adds nothing, so the
\* graph has the named ids as nodes and the edge lines as edges, no more.
C15_LineClassification ==
    \A ls \in LineSeqs :
        Parsed(ls)
        => LET named == NamedIds(ls, 1, <<>>)
           IN  /\ Len(orig_nodes) = Len(named)
               /\ Len(orig_edges) = Len(EdgeLines(ls))
               /\ \A i \in 1..Len(named) :
                     named[i].by = "node"
                     => orig_nodes[i] = [id |-> named[i].id, label |-> named[i].label,
                                         type |-> named[i].type]

\* the block that holds only the line [[x]] Foo was parsed into one input
\* node x with the label Foo
C15_Witness ==
    /\ pc = "TOOL_LOOP"
    /\ markdown = FlowOpen \o <<"\n", "[", "[", "x", "]", "]", " ", "F", "o", "o", "\n">>
                  \o Fence
    /\ orig_nodes = << [id |-> <<"x">>, label |-> <<"F", "o", "o">>, type |-> "input"] >>
    /\ orig_edges = <<>>

\* C17: the original graph is never modified during a run.  From the parse
\* on, whatever tools were called, orig_nodes and orig_edges are the graph
\* parsed from the incoming document.
C17_OriginalUntouched ==
    pc # "PARSING"
    => [nodes |-> orig_nodes, edges |-> orig_edges] = _parse_flow(markdown)

\* two tool calls changed the nodes and the edges of the toolkit
C17_Witness ==
    /\ invocations = 2
    /\ ~last.raised
    /\ plugin.nodes # orig_nodes
    /\ plugin.edges # orig_edges
    /\ orig_nodes # <<>>

\* C20: in the trusted-JSON path every field missing from the object of the
\* model takes its fallback and the run still returns a Suggestion, whose
\* nodesDelta and edgesDelta are integers whatever the object gave for them:
\* a run the model answered with a JSON object ends in DONE, markdown absent
\* gives the incoming document, summary absent the default message, a delta
\* absent 0, the lists of changed ids absent the empty list.
C20_MissingFieldsFallBack ==
    reply.obj.t = "obj"
    => /\ pc = "DONE"
       /\ suggestion.impacts.nodesDelta \in Int
       /\ suggestion.impacts.edgesDelta \in Int
       /\ ~HasKey(reply.obj, K_markdown) => suggestion.markdown = PyStr(markdown)
       /\ ~HasKey(reply.obj, K_summary) => suggestion.summary = PyStr(DefaultSummary)
       /\ ~HasKey(reply.obj, K_nodesDelta) => suggestion.impacts.nodesDelta = 0
       /\ ~HasKey(reply.obj, K_edgesDelta) => suggestion.impacts.edgesDelta = 0
       /\ ~HasKey(reply.obj, K_changedNodeIds)
            => suggestion.impacts.changedNodeIds = PyList(<<>>)
       /\ ~HasKey(reply.obj, K_changedEdgeIds)
            => suggestion.impacts.changedEdgeIds = PyList(<<>>)

\* the body of the request is no JSON, or its message is missing, empty or
\* blank
MalformedInput ==
    \/ request.body.t = "invalid"
    \/ /\ request.body.t = "obj"
       /\ \/ request.body.message.t \in {"absent", "null"}
          \/ request.body.message.t = "str" /\ Strip(request.body.message.v) = <<>>

\* a POST that carries the oid the api app asks for
Admitted == request.method = "POST" /\ (request.app = "api" => request.auth)

\* C18: malformed caller input is rejected with status 400 before any graph
\* work.  For such a request run_flow_agent is never entered, and the answer
\* of the handler is the error response of status 400.
C18_MalformedRejected ==
    (Admitted /\ MalformedInput)
    => /\ pc \in {"RECEIVED", "RESPONDED"}
       /\ pc = "RESPONDED" => response = _error(400)

\* C19: agent_chat always answers with a structured response.  Whatever the
\* body and whatever the run did, the handler returns the Suggestion with
\* status 200 or a JSON error object with a status; no exception leaves it.
C19_StructuredResponse ==
    (request.method = "POST" /\ pc = "RESPONDED")
    => /\ response.kind = "response"
       /\ \/ response.status = 200 /\ response.body = "suggestion"
          \/ response.status \in {400, 401, 500} /\ response.body = "error"

(***************************************************************************)
(* C16                                                                     *)
(***************************************************************************)

\* the plugin and the trace an invocation has after the calls made in it,
\* on objects no other invocation touches
Replayed(state, call, r) ==
    [plugin |-> [nodes |-> r.nodes, edges |-> r.edges,
                 _edge_counter |-> r._edge_counter],
     trace_log |-> _trace(state.trace_log, call.tool, call.args, r.result)]

RECURSIVE ReplayCalls(_, _, _)
ReplayCalls(state, calls, k) ==
    IF k > Len(calls) THEN state
    ELSE ReplayCalls(Replayed(state, calls[k], CallTool(state.plugin, calls[k])),
                     calls, k + 1)

Alone(run) ==
    ReplayCalls([plugin |-> TwinPlugin(_parse_flow(run.markdown)), trace_log |-> <<>>],
                run.calls, 1)

\* C16: whatever the interleaving of two invocations, on different documents
\* or on the same one, each has the original graph, the working graph, the
\* trace and, once it has returned, the suggestion it would have had if its
\* own calls had run alone: no tool call of one changes the graph or the
\* trace of the other.
C16_RunsIndependent ==
    \A i \in 1..2 :
        LET run == twin.runs[i]
            alone == Alone(run)
        IN  run.pc # "PARSING" =>
              /\ [nodes |-> run.orig_nodes, edges |-> run.orig_edges]
                     = _parse_flow(run.markdown)
              /\ twin.plugins[run.plugin] = alone.plugin
              /\ twin.traces[run.trace_log] = alone.trace_log
              /\ run.pc # "TOOL_LOOP" =>
                    [pc |-> run.pc, suggestion |-> run.suggestion]
                        = Reconcile(run.markdown, run.orig_nodes, run.orig_edges,
                                    alone.plugin, run.reply.raw, alone.trace_log)

\* two invocations on the same document have each made a tool call and
\* returned, with different graphs
C16_Witness ==
    /\ twin.runs[1].markdown = twin.runs[2].markdown
    /\ \A i \in 1..2 : /\ twin.runs[i].pc \in {"DONE", "DONE_FALLBACK"}
                       /\ twin.runs[i].invocations >= 1
    /\ twin.runs[1].calls[1].tool = "add_node"
    /\ twin.runs[2].calls[1].tool = "remove_node"
    /\ twin.plugins[twin.runs[1].plugin] # twin.plugins[twin.runs[2].plugin]
    /\ twin.runs[1].suggestion # twin.runs[2].suggestion

(***************************************************************************)
(* C21                                                                     *)
(***************************************************************************)

\* the base prompt followed by the Template-Specific Role section
WithRole(label, prompt) ==
    BASE_SYSTEM_PROMPT \o <<"\n", "\n">>
    \o <<"#", "#", " ", "T", "e", "m", "p", "l", "a", "t", "e", "-", "S", "p", "e", "c", "i", "f", "i", "c", " ", "R", "o", "l", "e", "\n">>
    \o <<"(", "T", "e", "m", "p", "l", "a", "t", "e", ":", " ">> \o label \o <<")", "\n">>
    \o prompt

Present(ns, id) == \E i \in 1..Len(ns) : ns[i].id = id

\* the default node add_edge creates for id
DefaultNode(id) == [id |-> id, label |-> id, type |-> "default"]

\* C22: every invocation of add_edge(source, target, label) answers "Added
\* edge", keeps the edges it found and puts exactly one edge of id
\* e-{source}-{target} after them, whether or not the pair was there already;
\* it keeps the nodes it found and puts after them a default node (label =
\* id) for the source if it was missing and then one for the target if it was
\* missing and is not the source.
C22_AddEdge ==
    [][ Invoked("add_edge")
        => LET x == last'.args
               forSource == IF Present(plugin.nodes, x.source) THEN <<>>
                            ELSE <<DefaultNode(x.source)>>
               forTarget == IF Present(plugin.nodes, x.target) \/ x.target = x.source
                            THEN <<>>
                            ELSE <<DefaultNode(x.target)>>
               edge == plugin'.edges[Len(plugin'.edges)]
           IN  /\ ~last'.raised
               /\ last'.result.msg = "Added edge {source} → {target}{ : label}."
               /\ Len(plugin'.edges) = Len(plugin.edges) + 1
               /\ SubSeq(plugin'.edges, 1, Len(plugin.edges)) = plugin.edges
               /\ edge.id = <<"e", "-">> \o x.source \o <<"-">> \o x.target
               /\ edge.source = x.source
               /\ edge.target = x.target
               /\ plugin'.nodes = plugin.nodes \o forSource \o forTarget
      ]_vars

\* add_edge(a, b) was invoked twice on a document without a flow block: the
\* nodes are the default nodes a and b, in that order, and the two edges
\* have the same id
C22_Witness ==
    /\ last.tool = "add_edge"
    /\ Len(trace_log) = 2
    /\ trace_log[1].tool = "add_edge"
    /\ plugin.nodes = <<DefaultNode(a), DefaultNode(b)>>
    /\ Len(plugin.edges) = 2
    /\ plugin.edges[1].id = plugin.edges[2].id
    /\ plugin.edges[1].source = a
    /\ plugin.edges[1].target = b

(***************************************************************************)
(* C23                                                                     *)
(***************************************************************************)

\* C23: every invocation of remove_edge(source, target) leaves no edge of
\* that pair, keeps every other edge (the opposite edge among them) in the
\* order it had, and leaves the nodes as they were.
C23_RemoveEdgeAll ==
    [][ Invoked("remove_edge")
        => LET x == last'.args
               keep == {i \in 1..Len(plugin.edges) :
                           ~(plugin.edges[i].source = x.source
                             /\ plugin.edges[i].target = x.target)}
           IN  /\ ~last'.raised
               /\ \A i \in 1..Len(plugin'.edges) :
                     ~(plugin'.edges[i].source = x.source
                       /\ plugin'.edges[i].target = x.target)
               /\ IsSubSeqAt(plugin'.edges, plugin.edges, keep)
               /\ plugin'.nodes = plugin.nodes
      ]_vars

\* remove_edge(a, b) was the first call on the document with the edges
\* a -> b, b -> a, a -> b: both a -> b are gone, b -> a is left, and the
\* nodes a and b the parser created are still there
C23_Witness ==
    /\ markdown = DocDupEdges
    /\ Len(orig_edges) = 3
    /\ invocations = 1
    /\ last.tool = "remove_edge"
    /\ last.args = [source |-> a, target |-> b]
    /\ last.result.msg = "Removed edge {source} → {target}."
    /\ Len(plugin.edges) = 1
    /\ plugin.edges[1].source = b
    /\ plugin.edges[1].target = a
    /\ plugin.nodes = orig_nodes
    /\ Len(plugin.nodes) = 2

(***************************************************************************)
(* C24                                                                     *)
(***************************************************************************)

\* C24: every invocation of replace_flow with two parseable payloads leaves
\* the nodes and the edges equal to the payloads, and every invocation with
\* an unparseable payload leaves both the nodes and the edges as they were.
C24_ReplaceTogether ==
    [][ Invoked("replace_flow")
        => LET x == last'.args
           IN  IF x.nodes_json.is_json /\ x.edges_json.is_json
               THEN /\ plugin'.nodes = x.nodes_json.value
                    /\ plugin'.edges = x.edges_json.value
               ELSE /\ plugin'.nodes = plugin.nodes
                    /\ plugin'.edges = plugin.edges
      ]_vars

(***************************************************************************)
(* C25                                                                     *)
(***************************************************************************)

\* the lines of all blocks of the document, in the order of the text
RECURSIVE AllLines(_)
AllLines(bs) == IF bs = <<>> THEN <<>> ELSE Head(bs) \o AllLines(Tail(bs))

\* the line l names the id
Names(l, id) ==
    \/ l.kind = "node" /\ l.id = id
    \/ l.kind = "edge" /\ (l.id = id \/ l.tgt = id)

\* the node the line l gives to the id
NodeBy(l, id) ==
    IF l.kind = "node" THEN [id |-> id, label |-> l.label, type |-> l.ntype]
    ELSE [id |-> id, label |-> id, type |-> "default"]

\* C25: in the parse of a document of several blocks no two nodes have the
\* same id, the nodes are exactly the ids the lines of all blocks name, and
\* each node has the label and the type given by the first line, over all
\* blocks, that names its id: a later declaration adds and changes nothing.
C25_FirstOccurrenceWins ==
    (pc # "PARSING" /\ written # <<>>)
    => LET ls == AllLines(written)
           ids == {id \in {ls[k].id : k \in 1..Len(ls)} \cup {ls[k].tgt : k \in 1..Len(ls)} :
                      \E k \in 1..Len(ls) : Names(ls[k], id)}
           first(id) == Min({k \in 1..Len(ls) : Names(ls[k], id)})
       IN  /\ NoDuplicateIds(orig_nodes)
           /\ {orig_nodes[i].id : i \in 1..Len(orig_nodes)} = ids
           /\ \A i \in 1..Len(orig_nodes) :
                 orig_nodes[i] = NodeBy(ls[first(orig_nodes[i].id)], orig_nodes[i].id)
           /\ \A i, j \in 1..Len(orig_nodes) :
                 i < j => first(orig_nodes[i].id) <= first(orig_nodes[j].id)

\* the first block names x in an edge line and the second declares x as an
\* input node: x is one default node whose label is its id
C25_Witness ==
    /\ pc = "TOOL_LOOP"
    /\ Len(written) = 2
    /\ Len(written[1]) = 1
    /\ Len(written[2]) = 1
    /\ written[1][1].kind = "edge"
    /\ written[1][1].tgt = <<"x">>
    /\ written[2][1].kind = "node"
    /\ written[2][1].id = <<"x">>
    /\ written[2][1].ntype = "input"
    /\ Len(orig_nodes) = 2
    /\ orig_nodes[2] = [id |-> <<"x">>, label |-> <<"x">>, type |-> "default"]

(***************************************************************************)
(* C26                                                                     *)
(***************************************************************************)

\* the pieces of t between its line feeds
SplitOnLineFeed(t) ==
    LET cuts == {0, Len(t) + 1} \cup {i \in 1..Len(t) : t[i] = "\n"}
        after(i) == Min({j \in cuts : j > i})
        starts == cuts \ {Len(t) + 1}
    IN  [k \in 1..Cardinality(starts) |->
            SubSeq(t, Kth(starts, k) + 1, after(Kth(starts, k)) - 1)]

\* the line of a node and the line of an edge, as the claim writes them
NodeLine(n) ==
    (CASE n.type = "input" -> <<"[", "[">> \o n.id \o <<"]", "]">>
       [] n.type = "output" -> <<"(", "(">> \o n.id \o <<")", ")">>
       [] n.type = "selector" -> <<"{">> \o n.id \o <<"}">>
       [] OTHER -> <<"[">> \o n.id \o <<"]">>)
    \o <<" ">> \o n.label

EdgeLine(e) ==
    <<"[">> \o e.source \o <<"]", " ", "-", ">", " ", "[">> \o e.target \o <<"]">>
    \o (IF e.label = <<>> THEN <<>> ELSE <<" ", ":", " ">> \o e.label)

\* the lines of the block _build_flow_block gives for the graph of the toolkit
BlockOfPlugin == SplitOnLineFeed(_build_flow_block(plugin.nodes, plugin.edges))

NodeLines == [i \in 1..Len(plugin.nodes) |-> NodeLine(plugin.nodes[i])]
EdgeLinesOfPlugin == [i \in 1..Len(plugin.edges) |-> EdgeLine(plugin.edges[i])]

\* the lines the claim puts between the fences: one per node in order, one
\* blank line if and only if there is an edge, one per edge in order
BodyLines ==
    NodeLines \o (IF plugin.edges # <<>> THEN << <<>> >> ELSE <<>>) \o EdgeLinesOfPlugin

\* C26: the block _build_flow_block gives is the opening fence, the body
\* lines joined by line feeds (one line per node, exactly one blank line if
\* and only if there is an edge, one line per edge) and the closing fence;
\* for the empty graph the body is empty.
C26_BlockLayout ==
    pc # "PARSING"
    => BlockOfPlugin
           = <<FlowOpen>> \o (IF BodyLines = <<>> THEN << <<>> >> ELSE BodyLines)
             \o <<Fence>>

(***************************************************************************)
(* C27, C28                                                                *)
(***************************************************************************)

\* the step was an invocation of add_node, remove_node, add_edge or
\* remove_edge
InvokedEditTool ==
    /\ invocations' = invocations + 1
    /\ last'.tool \in {"add_node", "remove_node", "add_edge", "remove_edge"}

\* the step was the parse of the document
Parsing == pc = "PARSING" /\ pc' # "PARSING"

\* C27: the graph the toolkit gets from _parse_flow has no two nodes of the
\* same id, and an invocation of add_node, remove_node, add_edge or
\* remove_edge on a graph without two nodes of the same id leaves one: node
\* ids stay unique over any sequence of these calls.
C27_UniqueNodeIds ==
    [][ /\ Parsing => NoDuplicateIds(plugin'.nodes)
        /\ (InvokedEditTool /\ NoDuplicateIds(plugin.nodes))
              => NoDuplicateIds(plugin'.nodes)
      ]_vars

\* add_edge(a, b) created the node b, then add_node(b, ...) found it: the
\* toolkit holds each id once
C27_Witness ==
    /\ Len(trace_log) = 2
    /\ trace_log[1].tool = "add_edge"
    /\ trace_log[1].args.target = b
    /\ last.tool = "add_node"
    /\ last.args.node_id = b
    /\ last.result.msg = "Node '{node_id}' already exists."
    /\ Present(plugin.nodes, b)
    /\ NoDuplicateIds(plugin.nodes)

\* every edge of es has its source and its target among the nodes ns
NoDanglingEdges(ns, es) ==
    \A j \in 1..Len(es) : Present(ns, es[j].source) /\ Present(ns, es[j].target)

\* C28: the graph the toolkit gets from _parse_flow has no dangling edge, and
\* an invocation of add_node, remove_node, add_edge or remove_edge on a graph
\* without dangling edges leaves none: every edge has both its ends among the
\* nodes over any sequence of these calls.
C28_NoDanglingEdges ==
    [][ /\ Parsing => NoDanglingEdges(plugin'.nodes, plugin'.edges)
        /\ (InvokedEditTool /\ NoDanglingEdges(plugin.nodes, plugin.edges))
              => NoDanglingEdges(plugin'.nodes, plugin'.edges)
      ]_vars

\* on the document with the edges a -> b and b -> c, add_edge created an
\* edge and remove_node(b) then removed b with the edges at it: the edges
\* left have both ends among the nodes left
C28_Witness ==
    /\ markdown = DocChain
    /\ Len(trace_log) = 2
    /\ trace_log[1].tool = "add_edge"
    /\ last.tool = "remove_node"
    /\ last.args.node_id = b
    /\ ~Present(plugin.nodes, b)
    /\ Len(plugin.edges) < Len(orig_edges)
    /\ NoDanglingEdges(plugin.nodes, plugin.edges)

(***************************************************************************)
(* C29                                                                     *)
(***************************************************************************)

\* every request is answered, and none with the 500 of a failed storage call
AllCompleted ==
    \A i \in 1..Len(storage.reqs) :
        storage.reqs[i].at = "done" /\ storage.reqs[i].status # 500

\* C29: once every save_note and delete_note request on the note is answered,
\* no storage call having failed, the body blob exists if and only if the
\* metadata blob exists.
C29_BlobsTogether ==
    (storage.reqs # <<>> /\ AllCompleted) => (storage.body <=> storage.meta)

====
